---- MODULE Spec2Model ----
(***************************************************************************)
(* Video-analysis backend: the in-memory project store (backend/store.py), *)
(* the analysis pipeline (backend/pipeline.py), the risk assessor's merge  *)
(* of judgement passes (backend/models/risk_assessor.py) and the           *)
(* start_analysis endpoint (backend/app.py).                               *)
(*                                                                         *)
(* Conventions.  Python None is the string "None" for optional strings and *)
(* the empty sequence for optional records (a present record r is <<r>>).  *)
(* A dict is a function whose DOMAIN is the set of its keys.  Japanese     *)
(* string literals of the source are written as ASCII stand-ins.           *)
(***************************************************************************)
EXTENDS Integers, Sequences, FiniteSets, TLC

\* ------------------------------------------------------------------ bounds
\* start_analysis requests accepted over a behaviour (each schedules a run)
MaxStarts == 1
\* steps of a behaviour in which an external call (AI service, file write) fails
MaxFaults == 1

\* ------------------------------------------------------- program constants
\* total_iterations in AnalysisPipeline.run
TotalIterations == 3
\* passes, the default of RiskAssessor.assess_with_enrichment
Passes == 3
\* information extraction is run twice (run 1/2, run 2/2)
ExtractionRuns == 2
\* quorum of the pipeline's tag vote: len(tag_list) >= 2
TagQuorum == 2
\* length of the transcription placeholder text
TranscriptFallbackLen == 56
\* length of the OCR placeholder text
OcrFallbackLen == 45

VARIABLES
    db,       \* ProjectStore._db: project id -> Project
    files,    \* artifact files of each project's workspace_dir
    runs,     \* the background tasks executing AnalysisPipeline.run
    started,  \* number of start_analysis requests accepted so far
    faults,   \* number of steps in which an external call has failed so far
    http,     \* the last response of the start_analysis endpoint
    sel,      \* Extraction Selector applied to drawn candidates
    agg,      \* risk aggregation applied to drawn judgement runs
    fn        \* a helper of the risk assessor applied to drawn inputs

vars == <<db, files, runs, started, faults, http, sel, agg, fn>>

\* ------------------------------------------------------------------ helpers
NoneStr == "None"
None == <<>>
Some(x) == <<x>>
IsSome(o) == Len(o) > 0
Get(o) == o[1]

Max2(a, b) == IF a >= b THEN a ELSE b
Abs(a) == IF a >= 0 THEN a ELSE -a
Range(s) == {s[i] : i \in 1..Len(s)}

RECURSIVE SeqSum(_)
SeqSum(s) == IF s = <<>> THEN 0 ELSE s[1] + SeqSum(Tail(s))

\* a dict d with d[k] = v assigned
DictPut(d, k, v) == [x \in DOMAIN d \cup {k} |-> IF x = k THEN v ELSE d[x]]
EmptyDict == [x \in {} |-> 0]

\* -------------------------------------------------------------------- texts
\* A str: `id` names its content, `len` counts its characters other than
\* leading and trailing whitespace, `pad` counts the leading and trailing
\* whitespace characters.
Text(id, n, p) == [id |-> id, len |-> n, pad |-> p]
EmptyText == Text("", 0, 0)
\* str.strip()
strip(t) == IF t.len = 0 THEN EmptyText ELSE [t EXCEPT !.pad = 0]
\* len(str)
StrLen(t) == t.len + t.pad
\* truthiness of a str
Truthy(t) == StrLen(t) > 0

\* ------------------------------------------------------------------- store
PROJECT_STEPS == <<"transcription", "ocr", "visual", "risk">>
StepSet == Range(PROJECT_STEPS)

ProjectIds == {"p1"}
MediaTypes == {"video", "image"}

\* a line of Project.logs: what happened, and its detail
LogEntry(what, detail) == <<what, detail>>

_default_step_status == [s \in StepSet |-> "pending"]

\* Project(...) as create_project registers it
NewProject(media_type) ==
    [ media_type |-> media_type,
      status |-> "created",
      analysis_progress |-> 0,      \* in units of 1/len(PROJECT_STEPS): 4 is 1.0
      logs |-> <<LogEntry("project created", "")>>,
      payloads |-> EmptyDict,
      step_status |-> _default_step_status,
      final_report |-> None,
      analysis_started |-> FALSE,
      analysis_started_at |-> NoneStr,
      analysis_completed_at |-> NoneStr,
      analysis_duration_seconds |-> NoneStr,
      total_iterations |-> 1,
      current_iteration |-> 0 ]

\* the result of a store call: the store after it and the exception it raised
Ret(d, exc) == [db |-> d, exc |-> exc]

_calculate_progress(project) ==
    Cardinality({s \in StepSet : project.step_status[s] = "completed"})

get_project(d, p) ==
    IF p \notin DOMAIN d THEN Ret(d, "ProjectNotFoundError") ELSE Ret(d, NoneStr)

\* mutant: the double-start guard is dropped
mark_pipeline_started_noguard(d, p) ==
    IF p \notin DOMAIN d THEN Ret(d, "ProjectNotFoundError")
    ELSE Ret([d EXCEPT ![p] = [@ EXCEPT
                !.analysis_started = TRUE,
                !.status = "analyzing",
                !.analysis_started_at = "set",
                !.analysis_completed_at = NoneStr,
                !.analysis_duration_seconds = NoneStr,
                !.current_iteration = 0,
                !.total_iterations = Max2(@, 1),
                !.logs = Append(@, LogEntry("pipeline started", ""))]], NoneStr)

mark_pipeline_started(d, p) ==
    IF p \notin DOMAIN d THEN Ret(d, "ProjectNotFoundError")
    ELSE IF d[p].analysis_started /\ d[p].status = "analyzing"
    THEN Ret(d, "PipelineAlreadyRunningError")
    ELSE Ret([d EXCEPT ![p] = [@ EXCEPT
                !.analysis_started = TRUE,
                !.status = "analyzing",
                !.analysis_started_at = "set",
                !.analysis_completed_at = NoneStr,
                !.analysis_duration_seconds = NoneStr,
                !.current_iteration = 0,
                !.total_iterations = Max2(@, 1),
                !.logs = Append(@, LogEntry("pipeline started", ""))]], NoneStr)

mark_step_running(d, p, step) ==
    IF step \notin StepSet THEN Ret(d, "ValueError")
    ELSE IF p \notin DOMAIN d THEN Ret(d, "ProjectNotFoundError")
    ELSE Ret([d EXCEPT ![p] = [@ EXCEPT
                !.step_status = [@ EXCEPT ![step] = "running"],
                !.logs = Append(@, LogEntry(step, "started"))]], NoneStr)

\* mutant: a step's completion is written to every project of the store
update_status_everywhere(d, p, step, preview, data) ==
    IF step \notin StepSet THEN Ret(d, "ValueError")
    ELSE IF p \notin DOMAIN d THEN Ret(d, "ProjectNotFoundError")
    ELSE Ret([q \in DOMAIN d |->
                 LET stepped == [d[q] EXCEPT
                        !.step_status = [@ EXCEPT ![step] = "completed"],
                        !.logs = Append(@, LogEntry(step, "completed")),
                        !.payloads = DictPut(@, step, [preview |-> preview, data |-> data])]
                 IN [stepped EXCEPT !.analysis_progress = _calculate_progress(stepped)]],
             NoneStr)

update_status(d, p, step, preview, data) ==
    IF step \notin StepSet THEN Ret(d, "ValueError")
    ELSE IF p \notin DOMAIN d THEN Ret(d, "ProjectNotFoundError")
    ELSE LET stepped == [d[p] EXCEPT
                !.step_status = [@ EXCEPT ![step] = "completed"],
                !.logs = Append(@, LogEntry(step, "completed")),
                !.payloads = DictPut(@, step, [preview |-> preview, data |-> data])]
         IN Ret([d EXCEPT ![p] =
                    [stepped EXCEPT !.analysis_progress = _calculate_progress(stepped)]],
                NoneStr)

\* mutant: the iteration is written, the total is left as it was
update_iteration_state_current_only(d, p, current_iteration, total_iterations) ==
    IF p \notin DOMAIN d THEN Ret(d, "ProjectNotFoundError")
    ELSE Ret([d EXCEPT ![p] = [@ EXCEPT
                !.current_iteration = current_iteration]], NoneStr)

update_iteration_state(d, p, current_iteration, total_iterations) ==
    IF p \notin DOMAIN d THEN Ret(d, "ProjectNotFoundError")
    ELSE Ret([d EXCEPT ![p] = [@ EXCEPT
                !.current_iteration = current_iteration,
                !.total_iterations = Max2(total_iterations, 1)]], NoneStr)

\* mutant: completion is recorded without the report and the progress
mark_pipeline_completed_bare(d, p, final_report) ==
    IF p \notin DOMAIN d THEN Ret(d, "ProjectNotFoundError")
    ELSE Ret([d EXCEPT ![p] = [@ EXCEPT
                !.status = "completed",
                !.logs = Append(@, LogEntry("pipeline completed", "")),
                !.analysis_completed_at = "set",
                !.current_iteration = d[p].total_iterations]], NoneStr)

mark_pipeline_completed(d, p, final_report) ==
    IF p \notin DOMAIN d THEN Ret(d, "ProjectNotFoundError")
    ELSE Ret([d EXCEPT ![p] = [@ EXCEPT
                !.status = "completed",
                !.analysis_progress = Len(PROJECT_STEPS),
                !.final_report = Some(final_report),
                !.logs = Append(@, LogEntry("pipeline completed", "")),
                !.analysis_completed_at = "set",
                !.current_iteration = d[p].total_iterations,
                !.analysis_duration_seconds =
                    IF d[p].analysis_started_at # NoneStr THEN "set" ELSE NoneStr]],
             NoneStr)

\* save(project): the caller's copy replaces the stored project
save(d, p, project) ==
    IF p \notin DOMAIN d THEN Ret(d, "ProjectNotFoundError")
    ELSE Ret([d EXCEPT ![p] = project], NoneStr)

\* mutant: the failure is logged but the status is left as it was
mark_pipeline_failed_keeps_status(d, p, reason) ==
    IF p \notin DOMAIN d THEN Ret(d, "ProjectNotFoundError")
    ELSE Ret([d EXCEPT ![p] = [@ EXCEPT
                !.logs = Append(@, LogEntry("pipeline failed", reason)),
                !.analysis_completed_at = "set"]], NoneStr)

\* mutant: a failure also winds the progress back to zero
mark_pipeline_failed_rewinds(d, p, reason) ==
    IF p \notin DOMAIN d THEN Ret(d, "ProjectNotFoundError")
    ELSE Ret([d EXCEPT ![p] = [@ EXCEPT
                !.status = "failed",
                !.analysis_progress = 0,
                !.logs = Append(@, LogEntry("pipeline failed", reason)),
                !.analysis_completed_at = "set",
                !.analysis_duration_seconds =
                    IF d[p].analysis_started_at # NoneStr THEN "set" ELSE @]], NoneStr)

mark_pipeline_failed(d, p, reason) ==
    IF p \notin DOMAIN d THEN Ret(d, "ProjectNotFoundError")
    ELSE Ret([d EXCEPT ![p] = [@ EXCEPT
                !.status = "failed",
                !.logs = Append(@, LogEntry("pipeline failed", reason)),
                !.analysis_completed_at = "set",
                !.analysis_duration_seconds =
                    IF d[p].analysis_started_at # NoneStr THEN "set" ELSE @]], NoneStr)

\* --------------------------------------------------------------- formatting
\* _format_transcript: the header line, then transcript.strip() or a default
_format_transcript(transcript) ==
    [ header |-> "transcription",
      excerpt |-> IF Truthy(strip(transcript)) THEN strip(transcript)
                  ELSE Text("no valid text from audio", 23, 0) ]

\* _format_ocr_text
_format_ocr_text(ocr_text) ==
    [ header |-> "ocr",
      excerpt |-> IF Truthy(strip(ocr_text)) THEN strip(ocr_text)
                  ELSE Text("no subtitles detected", 16, 0) ]

\* A visual-analysis dict: summary, segments (each entry is a dict with a
\* description of `description` characters, or is not a dict at all) and
\* risk_flags.
Segment(isdict, n) == [isdict |-> isdict, description |-> n]
VideoResult(summary, segments, risk_flags) ==
    [summary |-> summary, segments |-> segments, risk_flags |-> risk_flags]

\* _format_video_analysis calls segment.get(...) on every entry of segments:
\* an entry that is not a dict raises AttributeError
FormatVideoRaises(video_result) ==
    \E i \in 1..Len(video_result.segments) : ~video_result.segments[i].isdict

_format_video_analysis(video_result) ==
    [ header |-> "video",
      summary |-> IF video_result.summary # "" THEN video_result.summary
                  ELSE "nothing to note",
      segments |-> Len(video_result.segments),
      risk_flags |-> video_result.risk_flags ]

_is_stub_video_result(result) ==
    \/ result.summary = "[stub]"
    \/ \E i \in 1..Len(result.risk_flags) :
          result.risk_flags[i] \in {"insight-unavailable", "analysis-unavailable"}

\* the placeholder _run_visual_analysis returns when the call fails
VideoFallback == VideoResult("visual analysis unavailable", <<>>, <<"analysis-unavailable">>)

\* ----------------------------------------------------- Extraction Selector
\* abs(len1 - len2) / max(len1, len2, 1) < 0.05.  Both sides are exact in the
\* integers: the quotient of two lengths below 2^53 rounds to the double 0.05
\* only when it equals 1/20.
Similar(len1, len2) == 20 * Abs(len1 - len2) < Max2(Max2(len1, len2), 1)

\* A reply of generate_text: it raised, or it is text made of lines.  A line
\* is "1", "2", "3", "x" (words) or "" (blank).
Reply(kind, lines) == [kind |-> kind, lines |-> lines]

\* response.strip().split("\n")[-1].strip(): the last line that is not blank,
\* or "" when every line is blank
RECURSIVE TrailingLine(_)
TrailingLine(lines) ==
    IF lines = <<>> THEN ""
    ELSE IF lines[Len(lines)] # "" THEN lines[Len(lines)]
    ELSE TrailingLine(SubSeq(lines, 1, Len(lines) - 1))

\* int(choice_text): the integer, or ValueError
IntParses(choice_text) == choice_text \in {"1", "2", "3"}
IntOf(choice_text) ==
    CASE choice_text = "1" -> 1 [] choice_text = "2" -> 2 [] choice_text = "3" -> 3
      [] OTHER -> 0

\* The choice shared by the three selectors once len1 and len2 are known:
\* 1 or 2, and whether generate_text was called.
\* mutant: the longer candidate wins outright; neither the 5% rule nor the reply is used
SelectChoice_longer(len1, len2, reply) ==
    [choice |-> IF len1 >= len2 THEN 1 ELSE 2, arbitrated |-> FALSE]

SelectChoice(len1, len2, reply) ==
    IF Similar(len1, len2) THEN [choice |-> 1, arbitrated |-> FALSE]
    ELSE IF reply.kind = "raise" \/ ~IntParses(TrailingLine(reply.lines))
    THEN [choice |-> IF len1 >= len2 THEN 1 ELSE 2, arbitrated |-> TRUE]
    ELSE [choice |-> IF IntOf(TrailingLine(reply.lines)) = 1 THEN 1 ELSE 2,
          arbitrated |-> TRUE]

\* " ".join(seg.get("description", "") ...).strip(): its length, for segments
\* whose descriptions hold no whitespace
JoinedLen(segments) ==
    LET nz == {i \in 1..Len(segments) : segments[i].description > 0}
        first == CHOOSE i \in nz : \A j \in nz : i <= j
        last == CHOOSE i \in nz : \A j \in nz : i >= j
    IN IF nz = {} THEN 0
       ELSE SeqSum([i \in 1..Len(segments) |-> segments[i].description]) + (last - first)

Selected(run1, run2, c) ==
    [result |-> IF c.choice = 1 THEN run1 ELSE run2, arbitrated |-> c.arbitrated]

_select_best_transcription(run1, run2, reply) ==
    Selected(run1, run2,
             SelectChoice(StrLen(strip(run1.text)), StrLen(strip(run2.text)), reply))

_select_best_ocr(run1, run2, reply) ==
    Selected(run1, run2,
             SelectChoice(StrLen(strip(run1.text)), StrLen(strip(run2.text)), reply))

_select_best_video(run1, run2, reply) ==
    Selected(run1, run2,
             SelectChoice(JoinedLen(run1.result.segments),
                          JoinedLen(run2.result.segments), reply))

\* ---------------------------------------------------------- risk judgement
SocialGrades == {"A", "B", "C", "D", "E"}
\* the legal grades the judgement prompt enumerates
LEGAL_NONE == "teishoku-shiteinai"                  \* not in violation
LEGAL_POSSIBLE == "teishoku-suru-kanousei-ga-aru"   \* potential violation
LEGAL_VIOLATION == "teishoku-shiteiru"              \* in violation
LegalGrades == {LEGAL_NONE, LEGAL_POSSIBLE, LEGAL_VIOLATION}

GRADE_SCORE_MAP == [g \in SocialGrades |->
    CASE g = "A" -> 1 [] g = "B" -> 2 [] g = "C" -> 3 [] g = "D" -> 4 [] g = "E" -> 5]

_grade_to_score(grade) ==
    IF grade \in DOMAIN GRADE_SCORE_MAP THEN GRADE_SCORE_MAP[grade] ELSE 0

\* the thresholds 4.5, 3.5, 2.5, 1.5 on an integer score
_score_to_grade(score) ==
    IF 2 * score >= 9 THEN "E"
    ELSE IF 2 * score >= 7 THEN "D"
    ELSE IF 2 * score >= 5 THEN "C"
    ELSE IF 2 * score >= 3 THEN "B"
    ELSE IF score > 0 THEN "A"
    ELSE "N/A"

RECURSIVE SeqMax(_, _)
\* max(values, default=d)
SeqMax(values, d) ==
    IF values = <<>> THEN d
    ELSE IF Len(values) = 1 THEN values[1]
    ELSE Max2(values[1], SeqMax(Tail(values), values[2]))

\* worst_grade, local to RiskAssessor._aggregate_risk_results
worst_grade(values) ==
    _score_to_grade(SeqMax([i \in 1..Len(values) |-> _grade_to_score(values[i])], 0))

\* A judgement dict: the reply of one assess() call, the result of one risk
\* iteration, or the placeholder of a failed iteration.
Section(grade, reason) == [grade |-> grade, reason |-> reason]
\* A tag as assess() returns it (detected_text, detected_timecode and
\* related_sub_tags are set by setdefault) or as the screener proposes it,
\* and a sub-tag of it.  An absent reason is "".
SubTag(name, grade, reason, detected_text, detected_timecode) ==
    [ name |-> name, grade |-> grade, reason |-> reason,
      detected_text |-> detected_text, detected_timecode |-> detected_timecode ]
FullTag(name, grade, reason, detected_text, detected_timecode, related_sub_tags) ==
    [ name |-> name, grade |-> grade, reason |-> reason,
      detected_text |-> detected_text, detected_timecode |-> detected_timecode,
      related_sub_tags |-> related_sub_tags ]
Tag(name, grade) == FullTag(name, grade, "", "", "", <<>>)
Judgement(social, legal, position, tags, note) ==
    [ social |-> social, legal |-> legal, matrix |-> [position |-> position],
      tags |-> tags, note |-> note ]

RECURSIVE Flatten(_)
Flatten(ss) == IF ss = <<>> THEN <<>> ELSE ss[1] \o Flatten(Tail(ss))

\* the distinct values of a sequence in order of first occurrence (the key
\* order of a dict or Counter filled from it)
RECURSIVE KeyOrder(_)
KeyOrder(s) ==
    IF s = <<>> THEN <<>>
    ELSE LET init == KeyOrder(SubSeq(s, 1, Len(s) - 1))
             x == s[Len(s)]
         IN IF x \in Range(init) THEN init ELSE Append(init, x)

Count(s, x) == Cardinality({i \in 1..Len(s) : s[i] = x})

\* Counter(values).most_common(1)[0][0]: the most frequent value, the one
\* counted first among equals
most_common(values) ==
    LET keys == KeyOrder(values)
        best == CHOOSE i \in 1..Len(keys) :
                   /\ \A j \in 1..Len(keys) : Count(values, keys[j]) <= Count(values, keys[i])
                   /\ \A j \in 1..(i - 1) : Count(values, keys[j]) < Count(values, keys[i])
    IN keys[best]

\* merge_reason, local to RiskAssessor._aggregate_risk_results
merge_reason(base_results, field) ==
    LET all == [i \in 1..Len(base_results) |->
                   IF field = "social" THEN base_results[i].social.reason
                   ELSE base_results[i].legal.reason]
        values == SelectSeq(all, LAMBDA v : v # "")
    IN IF values = <<>> THEN NoneStr ELSE most_common(values)

\* bucket[...][0] if bucket[...] else default
FirstOr_last(values, default) ==
    IF values = <<>> THEN default ELSE values[Len(values)]
FirstOr(values, default) ==
    IF values = <<>> THEN default ELSE values[1]

\* the truthy values of a key among the payloads ingested into one bucket
Ingested(payloads, key) ==
    SelectSeq([i \in 1..Len(payloads) |-> payloads[i][key]], LAMBDA v : v # "")

\* what a bucket (of a tag or of a sub-tag) filled from `payloads` turns
\* into: the grade of the highest score, the most counted reason, the first
\* detected text and the first timecode (detected_source is left out)
BucketEntry(name, payloads) ==
    LET scores == [i \in 1..Len(payloads) |-> _grade_to_score(payloads[i].grade)]
        reasons == Ingested(payloads, "reason")
    IN SubTag(name,
              _score_to_grade(SeqMax(scores, 0)),
              IF reasons = <<>> THEN "" ELSE most_common(reasons),
              FirstOr(Ingested(payloads, "detected_text"), ""),
              FirstOr(Ingested(payloads, "detected_timecode"), NoneStr))

\* the sub-buckets of one tag bucket turned into related_sub_tags: one
\* entry per sub-tag name, in order of first occurrence
MergedSubTags(payloads) ==
    LET subs == SelectSeq(Flatten([i \in 1..Len(payloads) |-> payloads[i].related_sub_tags]),
                          LAMBDA u : u.name # "")
        sub_names == KeyOrder([i \in 1..Len(subs) |-> subs[i].name])
    IN [j \in 1..Len(sub_names) |->
           BucketEntry(sub_names[j], SelectSeq(subs, LAMBDA u : u.name = sub_names[j]))]

\* the tag buckets of RiskAssessor._aggregate_risk_results (ingest_tag over
\* `tags`) turned into merged_tags: one tag per name, in order of first
\* occurrence
MergedTags(tags) ==
    LET named == SelectSeq(tags, LAMBDA t : t.name # "")
        names == KeyOrder([i \in 1..Len(named) |-> named[i].name])
    IN [k \in 1..Len(names) |->
           LET payloads == SelectSeq(named, LAMBDA t : t.name = names[k])
               e == BucketEntry(names[k], payloads)
           IN FullTag(e.name, e.grade, e.reason, e.detected_text, e.detected_timecode,
                      MergedSubTags(payloads))]

\* RiskAssessor._aggregate_risk_results(base_results, keyword_matches),
\* base_results not empty
RiskAssessor_aggregate_risk_results(base_results, keyword_matches) ==
    LET first == base_results[1]
        social_grades == [i \in 1..Len(base_results) |-> base_results[i].social.grade]
        legal_grades == [i \in 1..Len(base_results) |-> base_results[i].legal.grade]
        social_reason == merge_reason(base_results, "social")
        legal_reason == merge_reason(base_results, "legal")
        \* base_results[0]["social"].copy() with grade and reason replaced:
        \* every other key (findings, ...) is the first result's
        merged_social ==
            [first.social EXCEPT
                !.grade = worst_grade(social_grades),
                !.reason = IF social_reason # NoneStr THEN social_reason ELSE @]
        merged_legal ==
            [first.legal EXCEPT
                !.grade = worst_grade(legal_grades),
                !.reason = IF legal_reason # NoneStr THEN legal_reason ELSE @]
        all_tags == Flatten([i \in 1..Len(base_results) |-> base_results[i].tags])
                       \o keyword_matches
    IN [first EXCEPT !.social = merged_social,
                     !.legal = merged_legal,
                     !.tags = MergedTags(all_tags)]

\* The outcome of one assess() call: it raised, or it returned `reply`.
Outcome(kind, reply) == [kind |-> kind, reply |-> reply]

\* RiskAssessor.assess_with_enrichment given the outcomes of its assess()
\* calls, outcomes[1..Passes] the passes and outcomes[Passes + 1] the call
\* made when every pass raised: whether it raises, what it returns, and the
\* number of assess() calls made
assess_with_enrichment(outcomes, keyword_matches) ==
    LET passes == SubSeq(outcomes, 1, Max2(1, Passes))
        ok == SelectSeq(passes, LAMBDA o : o.kind = "ok")
        base_results == [i \in 1..Len(ok) |-> ok[i].reply]
        last == outcomes[Max2(1, Passes) + 1]
    IN IF base_results = <<>>
       THEN [raised |-> last.kind # "ok", result |-> last.reply,
             calls |-> Max2(1, Passes) + 1]
       ELSE [raised |-> FALSE,
             result |-> RiskAssessor_aggregate_risk_results(base_results, keyword_matches),
             calls |-> Max2(1, Passes)]

\* the placeholder _run_risk builds when assess_with_enrichment raises
RiskPlaceholder ==
    Judgement(Section("C", "risk assessment failed"),
              Section(LEGAL_POSSIBLE, "risk assessment failed"),
              <<1, 2>>, <<>>, "exception text")

\* _format_risk reads position[0] and position[1] when position is not
\* empty: a position of one element raises IndexError
FormatRiskRaises(risk_result) == Len(risk_result.matrix.position) = 1

_format_risk(risk_result) ==
    [ header |-> "risk",
      social |-> risk_result.social,
      legal |-> risk_result.legal,
      position |-> risk_result.matrix.position,
      tags |-> SubSeq(risk_result.tags, 1, IF Len(risk_result.tags) < 5
                                           THEN Len(risk_result.tags) ELSE 5) ]

\* the result part of _run_risk: the judgement it goes on with
RunRiskResult(outcomes, keyword_matches) ==
    LET a == assess_with_enrichment(outcomes, keyword_matches)
    IN IF a.raised THEN RiskPlaceholder ELSE a.result

\* ------------------------------------ AnalysisPipeline._aggregate_risk_results
\* social_priority / grade_priority and legal_priority, .get(g, 99)
social_priority(g) ==
    CASE g = "S" -> 0 [] g = "A" -> 1 [] g = "B" -> 2 [] g = "C" -> 3 [] OTHER -> 99
legal_priority(g) ==
    CASE g = "teishoku-suru" -> 0
      [] g = "teishoku-suru-kanousei-ga-aru" -> 1
      [] g = "teishoku-shinai" -> 2
      [] OTHER -> 99

\* min(values, key=...), keys[i] the key of values[i]: the first value of
\* the least key
MinBy(values, keys) ==
    LET i == CHOOSE i \in 1..Len(values) :
                /\ \A j \in 1..Len(values) : keys[i] <= keys[j]
                /\ \A j \in 1..(i - 1) : keys[j] > keys[i]
    IN values[i]

\* consensus_tags: for every name listed TagQuorum times or more in all_tags,
\* the first of its tags of the least grade_priority
ConsensusTags(all_tags) ==
    LET named == SelectSeq(all_tags, LAMBDA t : t.name # "")
        names == KeyOrder([i \in 1..Len(named) |-> named[i].name])
        tag_list(n) == SelectSeq(named, LAMBDA t : t.name = n)
        kept == SelectSeq(names, LAMBDA n : Len(tag_list(n)) >= TagQuorum)
        prio(l) == [i \in 1..Len(l) |-> social_priority(l[i].grade)]
    IN [k \in 1..Len(kept) |-> MinBy(tag_list(kept[k]), prio(tag_list(kept[k])))]

AnalysisPipeline_aggregate_risk_results(risk_results) ==
    LET social_grades == [i \in 1..Len(risk_results) |-> risk_results[i].social.grade]
        legal_grades == [i \in 1..Len(risk_results) |-> risk_results[i].legal.grade]
        most_severe_social ==
            IF social_grades = <<>> THEN "C" ELSE MinBy(social_grades,
                       [i \in 1..Len(social_grades) |-> social_priority(social_grades[i])])
        most_severe_legal ==
            IF legal_grades = <<>> THEN LEGAL_POSSIBLE ELSE MinBy(legal_grades,
                       [i \in 1..Len(legal_grades) |-> legal_priority(legal_grades[i])])
        hits == {i \in 1..Len(risk_results) :
                    \/ risk_results[i].social.grade = most_severe_social
                    \/ risk_results[i].legal.grade = most_severe_legal}
        selected_result ==
            IF hits # {} THEN risk_results[CHOOSE i \in hits : \A j \in hits : i <= j]
            ELSE risk_results[1]
        all_tags == Flatten([i \in 1..Len(risk_results) |-> risk_results[i].tags])
    IN [ social |-> selected_result.social,
         legal |-> selected_result.legal,
         matrix |-> selected_result.matrix,
         tags |-> ConsensusTags(all_tags) ]

\* ------------------------------------------------ the external services
\* What the AI service and the file system may do at a call.  A fault is a
\* call that raises, or a reply of a shape the caller does not expect.
TranscribeOutcomes ==
    {Outcome("ok", Text("speech", 40, 0)), Outcome("raise", EmptyText)}
OcrOutcomes ==
    {Outcome("ok", Text("subtitles", 30, 0)), Outcome("raise", EmptyText)}
\* run_step("visual"): json.loads of the reply, which may be a dict of the
\* expected shape, a dict whose segments are not dicts, or no dict at all
VisualOutcomes ==
    { Outcome("ok", VideoResult("summary", <<Segment(TRUE, 12)>>, <<>>)),
      Outcome("badshape", VideoResult("summary", <<Segment(FALSE, 0)>>, <<>>)),
      Outcome("nondict", VideoResult("", <<>>, <<>>)),
      Outcome("raise", VideoResult("", <<>>, <<>>)) }
\* assess(): a judgement, a judgement whose matrix position has one element, or an error
AssessOutcomes ==
    { Outcome("ok", Judgement(Section("D", "r"), Section(LEGAL_VIOLATION, "r"),
                              <<2, 3>>, <<Tag("X", "D")>>, NoneStr)),
      Outcome("ok", Judgement(Section("D", "r"), Section(LEGAL_VIOLATION, "r"),
                              <<2>>, <<Tag("X", "D")>>, NoneStr)),
      Outcome("raise", RiskPlaceholder) }
\* generate_text for the selectors' arbitration prompt
ArbitrationReplies ==
    { Reply("ok", <<"1">>), Reply("ok", <<"x", "2">>), Reply("ok", <<"x">>),
      Reply("raise", <<>>) }
\* aiofiles.open(...).write(...)
IoOutcomes == {"ok", "error"}

\* the tags _scan_tag_matches and _screen_with_cases add: none with an empty taxonomy
KeywordMatches == <<>>

AiFault(o) == IF o.kind = "ok" THEN 0 ELSE 1
IoFault(io) == IF io = "ok" THEN 0 ELSE 1
AssessFault(o) == IF o.kind = "ok" /\ Len(o.reply.matrix.position) # 1 THEN 0 ELSE 1

\* --------------------------------------------------------------- the runs
RunIds == 1..MaxStarts
AiKinds == {"transcription", "ocr", "visual", "assess", "generate_text"}

\* a task that is not scheduled yet
IdleRun ==
    [ pc |-> "idle", phase |-> "", project_id |-> "", media_type |-> "",
      start_exc |-> NoneStr, xrun |-> 0,
      transcripts |-> <<>>, ocrs |-> <<>>, videos |-> <<>>,
      transcript |-> None, ocr |-> None, video |-> None,
      iteration |-> 0, risk_results |-> <<>>, aggregation |-> None, project |-> None,
      exc |-> NoneStr, origin |-> NoneStr,
      ai_calls |-> [k \in AiKinds |-> 0], steps_run |-> 0 ]

Called(run, kind, n) == [run.ai_calls EXCEPT ![kind] = @ + n]

\* an exception leaves the try block of AnalysisPipeline.run: `origin` is the
\* call it came from
Escape(run, exc, origin) == [run EXCEPT !.pc = "except", !.exc = exc, !.origin = origin]

WriteFile(p, filename, content) ==
    [files EXCEPT ![p] = DictPut(@, filename, content)]

Init ==
    /\ db \in [ProjectIds -> {NewProject(m) : m \in MediaTypes}]
    /\ files = [p \in ProjectIds |-> EmptyDict]
    /\ runs = [r \in RunIds |-> IdleRun]
    /\ started = 0
    /\ faults = 0
    /\ http = [project_id |-> "", status |-> 0]
    /\ sel = [kind |-> "none"]
    /\ agg = [kind |-> "none"]
    /\ fn = [kind |-> "none"]

\* POST /projects/{project_id}/analyze
StartAnalysis(p) ==
    LET g == get_project(db, p)
        m == IF g.exc # NoneStr THEN g ELSE mark_pipeline_started(db, p)
    IN /\ (m.exc = NoneStr => started < Cardinality(DOMAIN runs))
       /\ db' = m.db
       /\ http' = [project_id |-> p,
                   status |-> CASE m.exc = "ProjectNotFoundError" -> 404
                                [] m.exc = "PipelineAlreadyRunningError" -> 409
                                [] OTHER -> 200]
       /\ IF m.exc = NoneStr
          THEN /\ started' = started + 1
               /\ runs' = [runs EXCEPT ![started + 1] =
                              [IdleRun EXCEPT !.pc = "scheduled", !.project_id = p]]
          ELSE UNCHANGED <<started, runs>>
       /\ UNCHANGED <<files, faults, sel, agg, fn>>

\* AnalysisPipeline.run: mark_pipeline_started and its two except clauses
RunBegin(r) ==
    LET run == runs[r]
        m == mark_pipeline_started(db, run.project_id)
    IN /\ run.pc = "scheduled"
       /\ db' = m.db
       /\ runs' = [runs EXCEPT ![r] =
                      IF m.exc = "ProjectNotFoundError"
                      THEN [run EXCEPT !.pc = "returned", !.start_exc = m.exc]
                      ELSE [run EXCEPT !.pc = "init", !.start_exc = m.exc]]
       /\ UNCHANGED <<files, started, faults, http, sel, agg, fn>>

\* get_project, then update_iteration_state(current_iteration=0)
RunInit(r) ==
    LET run == runs[r]
        p == run.project_id
        g == get_project(db, p)
        u == update_iteration_state(db, p, 0, TotalIterations)
    IN /\ run.pc = "init"
       /\ IF g.exc # NoneStr
          THEN /\ runs' = [runs EXCEPT ![r] = Escape(run, g.exc, "store")]
               /\ UNCHANGED db
          ELSE /\ db' = u.db
               /\ runs' = [runs EXCEPT ![r] =
                              [run EXCEPT !.pc = "transcription", !.phase = "mark",
                                          !.xrun = 1, !.media_type = db[p].media_type]]
       /\ UNCHANGED <<files, started, faults, http, sel, agg, fn>>

\* the mark_step_running call that opens _run_transcription, _run_ocr,
\* _run_visual_analysis and _run_risk
MarkStepRunning(r) ==
    LET run == runs[r]
        m == mark_step_running(db, run.project_id, run.pc)
    IN /\ run.pc \in StepSet
       /\ run.phase = "mark"
       /\ db' = m.db
       /\ runs' = [runs EXCEPT ![r] =
                      IF m.exc # NoneStr THEN Escape(run, m.exc, "store")
                      ELSE [run EXCEPT !.phase = "call", !.steps_run = @ + 1]]
       /\ UNCHANGED <<files, started, faults, http, sel, agg, fn>>

\* mutant: the image branch is missing, the AI service transcribes stills too
TranscriptionSkipped_never(media_type) == FALSE

\* if media_type == "image" in _run_transcription
TranscriptionSkipped(media_type) == media_type = "image"

\* _run_transcription after mark_step_running
RunTranscription(r) ==
    LET run == runs[r]
        p == run.project_id
        skipped == TranscriptionSkipped(run.media_type)
    IN /\ run.pc = "transcription"
       /\ run.phase = "call"
       /\ \E ai \in (IF skipped THEN {Outcome("ok", EmptyText)} ELSE TranscribeOutcomes),
             io \in IoOutcomes :
            LET transcript == IF skipped THEN EmptyText
                              ELSE IF ai.kind = "ok" THEN ai.reply
                              ELSE Text("transcription placeholder", TranscriptFallbackLen, 0)
                source == IF skipped THEN "skipped"
                          ELSE IF ai.kind = "ok" THEN "gemini" ELSE "fallback"
                note == IF skipped THEN "transcription skipped for a still image"
                        ELSE IF ai.kind = "ok" THEN NoneStr
                        ELSE "transcription failed, placeholder returned"
                formatted == IF skipped
                             THEN [header |-> "transcription",
                                   excerpt |-> Text("not transcribed: still image", 26, 0)]
                             ELSE _format_transcript(transcript)
                content == IF skipped THEN Text("not transcribed: still image", 26, 0)
                           ELSE IF Truthy(transcript) THEN transcript
                           ELSE formatted.excerpt
                result == [text |-> transcript, path |-> "transcription.txt",
                           source |-> source, note |-> note]
                data == [transcript |-> transcript, formatted |-> formatted,
                         file_path |-> "transcription.txt", source |-> source, note |-> note]
                u == update_status(db, p, "transcription", formatted, data)
                called == [run EXCEPT !.ai_calls = Called(run, "transcription",
                                                          IF skipped THEN 0 ELSE 1)]
            IN /\ faults + AiFault(ai) + IoFault(io) <= MaxFaults
               /\ faults' = faults + AiFault(ai) + IoFault(io)
               /\ IF io # "ok"
                  THEN /\ runs' = [runs EXCEPT ![r] = Escape(called, "OSError", "file")]
                       /\ UNCHANGED <<db, files>>
                  ELSE /\ files' = WriteFile(p, "transcription.txt", content)
                       /\ db' = u.db
                       /\ runs' = [runs EXCEPT ![r] =
                                      IF u.exc # NoneStr THEN Escape(called, u.exc, "store")
                                      ELSE [called EXCEPT !.transcripts = Append(@, result),
                                                          !.pc = "ocr", !.phase = "mark"]]
       /\ UNCHANGED <<started, http, sel, agg, fn>>

\* _run_ocr after mark_step_running (the annotations list is left out)
RunOcr(r) ==
    LET run == runs[r]
        p == run.project_id
    IN /\ run.pc = "ocr"
       /\ run.phase = "call"
       /\ \E ai \in OcrOutcomes, io \in IoOutcomes :
            LET ocr_text == IF ai.kind = "ok" THEN ai.reply
                            ELSE Text("ocr placeholder", OcrFallbackLen, 0)
                note == IF ai.kind = "ok" THEN NoneStr
                        ELSE "ocr failed, placeholder returned"
                formatted == _format_ocr_text(ocr_text)
                result == [text |-> ocr_text, path |-> "ocr.txt", note |-> note]
                data == [ocr_text |-> ocr_text, formatted |-> formatted,
                         file_path |-> "ocr.txt", note |-> note]
                u == update_status(db, p, "ocr", formatted, data)
                called == [run EXCEPT !.ai_calls = Called(run, "ocr", 1)]
            IN /\ faults + AiFault(ai) + IoFault(io) <= MaxFaults
               /\ faults' = faults + AiFault(ai) + IoFault(io)
               /\ IF io # "ok"
                  THEN /\ runs' = [runs EXCEPT ![r] = Escape(called, "OSError", "file")]
                       /\ UNCHANGED <<db, files>>
                  ELSE /\ files' = WriteFile(p, "ocr.txt", ocr_text)
                       /\ db' = u.db
                       /\ runs' = [runs EXCEPT ![r] =
                                      IF u.exc # NoneStr THEN Escape(called, u.exc, "store")
                                      ELSE [called EXCEPT !.ocrs = Append(@, result),
                                                          !.pc = "visual", !.phase = "mark"]]
       /\ UNCHANGED <<started, http, sel, agg, fn>>

\* _run_visual_analysis after mark_step_running
RunVisualAnalysis(r) ==
    LET run == runs[r]
        p == run.project_id
    IN /\ run.pc = "visual"
       /\ run.phase = "call"
       /\ \E ai \in VisualOutcomes, io \in IoOutcomes :
            LET caught == ai.kind \in {"raise", "nondict"}
                video_result == IF caught THEN VideoFallback ELSE ai.reply
                note1 == IF caught THEN "visual analysis failed, placeholder returned"
                         ELSE IF run.media_type = "image" THEN "still image analysed"
                         ELSE NoneStr
                video_note == IF _is_stub_video_result(video_result) /\ note1 = NoneStr
                              THEN "stub analysis returned" ELSE note1
                formatted == _format_video_analysis(video_result)
                result == [result |-> video_result, path |-> "video_analysis.json",
                           note |-> video_note]
                data == [raw |-> video_result, formatted |-> formatted,
                         file_path |-> "video_analysis.json", note |-> video_note]
                u == update_status(db, p, "visual", formatted, data)
                called == [run EXCEPT !.ai_calls = Called(run, "visual", 1)]
                last == run.xrun >= ExtractionRuns
            IN /\ faults + AiFault(ai) + IoFault(io) <= MaxFaults
               /\ faults' = faults + AiFault(ai) + IoFault(io)
               /\ IF FormatVideoRaises(video_result)
                  THEN /\ runs' = [runs EXCEPT ![r] =
                                      Escape(called, "AttributeError", "visual reply")]
                       /\ io = "ok"
                       /\ UNCHANGED <<db, files>>
                  ELSE IF io # "ok"
                  THEN /\ runs' = [runs EXCEPT ![r] = Escape(called, "OSError", "file")]
                       /\ UNCHANGED <<db, files>>
                  ELSE /\ files' = WriteFile(p, "video_analysis.json", video_result)
                       /\ db' = u.db
                       /\ runs' = [runs EXCEPT ![r] =
                                      IF u.exc # NoneStr THEN Escape(called, u.exc, "store")
                                      ELSE [called EXCEPT
                                              !.videos = Append(@, result),
                                              !.xrun = IF last THEN @ ELSE @ + 1,
                                              !.pc = IF last THEN "select_transcription"
                                                     ELSE "transcription",
                                              !.phase = IF last THEN "" ELSE "mark"]]
       /\ UNCHANGED <<started, http, sel, agg, fn>>

ArbFault(s, reply) == IF s.arbitrated /\ reply.kind # "ok" THEN 1 ELSE 0

\* _select_best_transcription as run calls it
SelectBestTranscription(r) ==
    LET run == runs[r]
    IN /\ run.pc = "select_transcription"
       /\ \E reply \in ArbitrationReplies :
            LET s == _select_best_transcription(run.transcripts[1], run.transcripts[2], reply)
            IN /\ faults + ArbFault(s, reply) <= MaxFaults
               /\ faults' = faults + ArbFault(s, reply)
               /\ runs' = [runs EXCEPT ![r] =
                              [run EXCEPT !.transcript = Some(s.result),
                                          !.ai_calls = Called(run, "generate_text",
                                                              IF s.arbitrated THEN 1 ELSE 0),
                                          !.pc = "select_ocr"]]
       /\ UNCHANGED <<db, files, started, http, sel, agg, fn>>

\* _select_best_ocr as run calls it
SelectBestOcr(r) ==
    LET run == runs[r]
    IN /\ run.pc = "select_ocr"
       /\ \E reply \in ArbitrationReplies :
            LET s == _select_best_ocr(run.ocrs[1], run.ocrs[2], reply)
            IN /\ faults + ArbFault(s, reply) <= MaxFaults
               /\ faults' = faults + ArbFault(s, reply)
               /\ runs' = [runs EXCEPT ![r] =
                              [run EXCEPT !.ocr = Some(s.result),
                                          !.ai_calls = Called(run, "generate_text",
                                                              IF s.arbitrated THEN 1 ELSE 0),
                                          !.pc = "select_video"]]
       /\ UNCHANGED <<db, files, started, http, sel, agg, fn>>

\* _select_best_video as run calls it
SelectBestVideo(r) ==
    LET run == runs[r]
    IN /\ run.pc = "select_video"
       /\ \E reply \in ArbitrationReplies :
            LET s == _select_best_video(run.videos[1], run.videos[2], reply)
            IN /\ faults + ArbFault(s, reply) <= MaxFaults
               /\ faults' = faults + ArbFault(s, reply)
               /\ runs' = [runs EXCEPT ![r] =
                              [run EXCEPT !.video = Some(s.result),
                                          !.ai_calls = Called(run, "generate_text",
                                                              IF s.arbitrated THEN 1 ELSE 0),
                                          !.pc = "iteration"]]
       /\ UNCHANGED <<db, files, started, http, sel, agg, fn>>

\* the head of the risk loop: update_iteration_state(current_iteration=iteration)
UpdateIteration(r) ==
    LET run == runs[r]
        u == update_iteration_state(db, run.project_id, run.iteration + 1, TotalIterations)
    IN /\ run.pc = "iteration"
       /\ db' = u.db
       /\ runs' = [runs EXCEPT ![r] =
                      IF u.exc # NoneStr THEN Escape(run, u.exc, "store")
                      ELSE [run EXCEPT !.iteration = @ + 1, !.pc = "risk", !.phase = "mark"]]
       /\ UNCHANGED <<files, started, faults, http, sel, agg, fn>>

\* _run_risk after mark_step_running (burn_risk is left out)
RunRisk(r) ==
    LET run == runs[r]
        p == run.project_id
    IN /\ run.pc = "risk"
       /\ run.phase = "call"
       /\ \E outcomes \in [1..(Max2(1, Passes) + 1) -> AssessOutcomes], io \in IoOutcomes :
            LET a == assess_with_enrichment(outcomes, KeywordMatches)
                risk_result == RunRiskResult(outcomes, KeywordMatches)
                fault == IF \E i \in 1..a.calls : AssessFault(outcomes[i]) = 1 THEN 1 ELSE 0
                formatted == _format_risk(risk_result)
                data == [risk |-> risk_result, formatted |-> formatted,
                         file_path |-> "risk_assessment.json"]
                u == update_status(db, p, "risk", formatted, data)
                called == [run EXCEPT !.ai_calls = Called(run, "assess", a.calls)]
                last == run.iteration >= TotalIterations
            IN /\ \A i \in (a.calls + 1)..Len(outcomes) : outcomes[i] = outcomes[1]
               /\ faults + fault + IoFault(io) <= MaxFaults
               /\ faults' = faults + fault + IoFault(io)
               /\ IF FormatRiskRaises(risk_result)
                  THEN /\ runs' = [runs EXCEPT ![r] =
                                      Escape(called, "IndexError", "risk reply")]
                       /\ io = "ok"
                       /\ UNCHANGED <<db, files>>
                  ELSE IF io # "ok"
                  THEN /\ runs' = [runs EXCEPT ![r] = Escape(called, "OSError", "file")]
                       /\ UNCHANGED <<db, files>>
                  ELSE /\ files' = WriteFile(p, "risk_assessment.json", risk_result)
                       /\ db' = u.db
                       /\ runs' = [runs EXCEPT ![r] =
                                      IF u.exc # NoneStr THEN Escape(called, u.exc, "store")
                                      ELSE [called EXCEPT
                                              !.risk_results = Append(@, risk_result),
                                              !.pc = IF last THEN "finalize" ELSE "iteration",
                                              !.phase = ""]]
       /\ UNCHANGED <<started, http, sel, agg, fn>>

\* _build_final_report (burn_risk and ocr_annotations are left out; a note
\* that is None leaves its metadata key out)
_build_final_report(transcript, ocr, video, risk_result, iterations) ==
    [ summary |-> "disclaimer",
      sections |-> [ transcription |-> _format_transcript(transcript.text),
                     ocr |-> _format_ocr_text(ocr.text),
                     video_analysis |-> _format_video_analysis(video.result) ],
      files |-> [ transcription |-> transcript.path, ocr |-> ocr.path,
                  video_analysis |-> video.path,
                  risk_assessment |-> "risk_assessment.json" ],
      metadata |-> [ transcription_source |-> transcript.source,
                     transcription_note |-> transcript.note,
                     ocr_note |-> ocr.note,
                     video_note |-> video.note ],
      risk |-> risk_result,
      iterations |-> iterations ]

\* the step_payloads of _finalize_with_single_extraction
StepPayloads(transcript, ocr, video, aggregated_risk, risk_results) ==
    [ transcription |->
        [ preview |-> _format_transcript(transcript.text),
          data |-> [ transcript |-> transcript.text,
                     formatted |-> _format_transcript(transcript.text),
                     file_path |-> transcript.path, source |-> transcript.source,
                     note |-> transcript.note ] ],
      ocr |->
        [ preview |-> _format_ocr_text(ocr.text),
          data |-> [ ocr_text |-> ocr.text, formatted |-> _format_ocr_text(ocr.text),
                     file_path |-> ocr.path, note |-> ocr.note ] ],
      visual |->
        [ preview |-> _format_video_analysis(video.result),
          data |-> [ raw |-> video.result,
                     formatted |-> _format_video_analysis(video.result),
                     file_path |-> video.path, note |-> video.note ] ],
      risk |->
        [ preview |-> _format_risk(aggregated_risk),
          data |-> [ risk |-> aggregated_risk, formatted |-> _format_risk(aggregated_risk),
                     file_path |-> "risk_assessment.json",
                     runs |-> [i \in 1..Len(risk_results) |->
                                  [iteration |-> i, result |-> risk_results[i]]] ] ] ]

\* _aggregate_risk_results, then _finalize_with_single_extraction
Finalize(r) ==
    LET run == runs[r]
        p == run.project_id
        transcript == Get(run.transcript)
        ocr == Get(run.ocr)
        video == Get(run.video)
        aggregated_risk == AnalysisPipeline_aggregate_risk_results(run.risk_results)
        iterations == [i \in 1..Len(run.risk_results) |->
                          [ index |-> i, transcription |-> transcript.text,
                            ocr |-> ocr.text, video_analysis |-> video.result,
                            risk |-> run.risk_results[i] ]]
        aggregation ==
            [ final_report |-> _build_final_report(transcript, ocr, video,
                                                   aggregated_risk, iterations),
              step_payloads |-> StepPayloads(transcript, ocr, video, aggregated_risk,
                                             run.risk_results) ]
    IN /\ run.pc = "finalize"
       /\ \E io \in IoOutcomes :
            /\ faults + IoFault(io) <= MaxFaults
            /\ faults' = faults + IoFault(io)
            /\ IF io # "ok"
               THEN /\ runs' = [runs EXCEPT ![r] = Escape(run, "OSError", "file")]
                    /\ UNCHANGED files
               ELSE /\ files' = WriteFile(p, "risk_assessment.json", aggregated_risk)
                    /\ runs' = [runs EXCEPT ![r] =
                                   [run EXCEPT !.aggregation = Some(aggregation),
                                               !.pc = "overrides_get"]]
       /\ UNCHANGED <<db, started, http, sel, agg, fn>>

\* _apply_step_overrides: project = await self.store.get_project(project_id)
ApplyStepOverridesGet(r) ==
    LET run == runs[r]
        g == get_project(db, run.project_id)
    IN /\ run.pc = "overrides_get"
       /\ runs' = [runs EXCEPT ![r] =
                      IF g.exc # NoneStr THEN Escape(run, g.exc, "store")
                      ELSE [run EXCEPT !.project = Some(db[run.project_id]),
                                       !.pc = "overrides_save"]]
       /\ UNCHANGED <<db, files, started, faults, http, sel, agg, fn>>

\* _apply_step_overrides: the loop over step_payloads on the copy, then save
ApplyStepOverridesSave(r) ==
    LET run == runs[r]
        step_payloads == Get(run.aggregation).step_payloads
        copy == Get(run.project)
        project == [copy EXCEPT
                      !.payloads = [s \in DOMAIN copy.payloads \cup StepSet |->
                                       IF s \in StepSet THEN step_payloads[s]
                                       ELSE copy.payloads[s]],
                      !.step_status = [s \in StepSet |-> "completed"]]
        v == save(db, run.project_id, project)
    IN /\ run.pc = "overrides_save"
       /\ db' = v.db
       /\ runs' = [runs EXCEPT ![r] =
                      IF v.exc # NoneStr THEN Escape(run, v.exc, "store")
                      ELSE [run EXCEPT !.pc = "complete"]]
       /\ UNCHANGED <<files, started, faults, http, sel, agg, fn>>

\* mark_pipeline_completed(project_id, aggregation["final_report"])
MarkPipelineCompleted(r) ==
    LET run == runs[r]
        c == mark_pipeline_completed(db, run.project_id, Get(run.aggregation).final_report)
    IN /\ run.pc = "complete"
       /\ db' = c.db
       /\ runs' = [runs EXCEPT ![r] =
                      IF c.exc # NoneStr THEN Escape(run, c.exc, "store")
                      ELSE [run EXCEPT !.pc = "done"]]
       /\ UNCHANGED <<files, started, faults, http, sel, agg, fn>>

\* except Exception as exc: mark_pipeline_failed(project_id, str(exc)); raise
HandleException(r) ==
    LET run == runs[r]
        f == mark_pipeline_failed(db, run.project_id, run.exc)
    IN /\ run.pc = "except"
       /\ db' = f.db
       /\ runs' = [runs EXCEPT ![r] =
                      [run EXCEPT !.pc = "raised",
                                  !.exc = IF f.exc # NoneStr THEN f.exc ELSE @]]
       /\ UNCHANGED <<files, started, faults, http, sel, agg, fn>>

Next ==
    \/ \E p \in ProjectIds : StartAnalysis(p)
    \/ \E r \in DOMAIN runs :
         \/ RunBegin(r)
         \/ RunInit(r)
         \/ MarkStepRunning(r)
         \/ RunTranscription(r)
         \/ RunOcr(r)
         \/ RunVisualAnalysis(r)
         \/ SelectBestTranscription(r)
         \/ SelectBestOcr(r)
         \/ SelectBestVideo(r)
         \/ UpdateIteration(r)
         \/ RunRisk(r)
         \/ Finalize(r)
         \/ ApplyStepOverridesGet(r)
         \/ ApplyStepOverridesSave(r)
         \/ MarkPipelineCompleted(r)
         \/ HandleException(r)

Spec == Init /\ [][Next]_vars

\* ------------------------------------------- one project analysed repeatedly
\* start_analysis requests accepted for the one project, one after the other
MaxRestarts == 2

\* A video project and MaxRestarts tasks to come; of the external calls of
\* the whole behaviour at most one fails.
InitRestart ==
    /\ db = [p \in ProjectIds |-> NewProject("video")]
    /\ files = [p \in ProjectIds |-> EmptyDict]
    /\ runs = [r \in 1..MaxRestarts |-> IdleRun]
    /\ started = 0
    /\ faults = MaxFaults - 1
    /\ http = [project_id |-> "", status |-> 0]
    /\ sel = [kind |-> "none"]
    /\ agg = [kind |-> "none"]
    /\ fn = [kind |-> "none"]

SpecRestart == InitRestart /\ [][Next]_vars

\* ------------------------------------------ the store and tasks at rest
\* The pipeline's variables while only a pure function is exercised.
AtRest ==
    /\ db = [p \in ProjectIds |-> NewProject("video")]
    /\ files = [p \in ProjectIds |-> EmptyDict]
    /\ runs = [r \in RunIds |-> IdleRun]
    /\ started = 0
    /\ faults = 0
    /\ http = [project_id |-> "", status |-> 0]

\* ------------------------------------- the Extraction Selector on its own
\* Candidates of every compared length up to MaxLen, with and without
\* surrounding whitespace, are handed to the three selectors.
MaxLen == 21

SelKinds == {"transcription", "ocr", "video"}

\* the tuple a _run_* step returns, as run hands it to the selector: `n`
\* characters of content `id`, `p` characters of surrounding whitespace (for
\* a visual result, `p` trailing segments of empty description)
Candidate(kind, id, n, p) ==
    CASE kind = "transcription" ->
           [text |-> Text(id, n, p), path |-> id, source |-> "gemini", note |-> NoneStr]
      [] kind = "ocr" ->
           [text |-> Text(id, n, p), path |-> id, note |-> NoneStr]
      [] OTHER ->
           [result |-> VideoResult(id,
                                   (IF n > 0 THEN <<Segment(TRUE, n)>> ELSE <<>>)
                                     \o [i \in 1..p |-> Segment(TRUE, 0)],
                                   <<>>),
            path |-> id, note |-> NoneStr]

\* replies of generate_text to the arbitration prompt
SelReplies ==
    { Reply("ok", <<"1">>), Reply("ok", <<"x", "2">>), Reply("ok", <<"2", "">>),
      Reply("ok", <<"2", "x">>), Reply("ok", <<"3">>), Reply("ok", <<>>),
      Reply("raise", <<>>) }

NoReply == Reply("none", <<>>)

InitSel ==
    /\ AtRest
    /\ agg = [kind |-> "none"]
    /\ fn = [kind |-> "none"]
    /\ \E kind \in SelKinds, n1 \in 0..MaxLen, n2 \in 0..MaxLen, p1 \in 0..1, p2 \in 0..1 :
         sel = [ phase |-> "input", kind |-> kind,
                 run1 |-> Candidate(kind, "a", n1, p1),
                 run2 |-> Candidate(kind, "b", n2, p2),
                 reply |-> NoReply,
                 out |-> Candidate(kind, "", 0, 0),
                 arbitrated |-> FALSE ]

\* what a selector call leaves: the tuple returned, whether generate_text was
\* called and, when it was, its reply
SelApplied(s, reply) ==
    [sel EXCEPT !.phase = "output",
                !.out = s.result,
                !.arbitrated = s.arbitrated,
                !.reply = IF s.arbitrated THEN reply ELSE NoReply]

ApplySelectBestTranscription ==
    /\ sel.phase = "input"
    /\ sel.kind = "transcription"
    /\ \E reply \in SelReplies :
         sel' = SelApplied(_select_best_transcription(sel.run1, sel.run2, reply), reply)
    /\ UNCHANGED <<db, files, runs, started, faults, http, agg, fn>>

ApplySelectBestOcr ==
    /\ sel.phase = "input"
    /\ sel.kind = "ocr"
    /\ \E reply \in SelReplies :
         sel' = SelApplied(_select_best_ocr(sel.run1, sel.run2, reply), reply)
    /\ UNCHANGED <<db, files, runs, started, faults, http, agg, fn>>

ApplySelectBestVideo ==
    /\ sel.phase = "input"
    /\ sel.kind = "video"
    /\ \E reply \in SelReplies :
         sel' = SelApplied(_select_best_video(sel.run1, sel.run2, reply), reply)
    /\ UNCHANGED <<db, files, runs, started, faults, http, agg, fn>>

NextSel ==
    \/ ApplySelectBestTranscription
    \/ ApplySelectBestOcr
    \/ ApplySelectBestVideo

SpecSel == InitSel /\ [][NextSel]_vars

\* ----------------------------------------- the risk aggregation on its own
\* Judgement replies of the AI service: grades over the whole scale, tag X
\* with a mild and a severe grade, no tag, and tag X listed twice.
AggReplies ==
    { Judgement(Section("A", "r"), Section(LEGAL_NONE, "r"), <<0, 0>>,
                <<Tag("X", "B")>>, NoneStr),
      Judgement(Section("E", "r"), Section(LEGAL_VIOLATION, "r"), <<2, 4>>,
                <<Tag("X", "D")>>, NoneStr),
      Judgement(Section("C", "r"), Section(LEGAL_POSSIBLE, "r"), <<1, 2>>,
                <<>>, NoneStr),
      Judgement(Section("B", "r"), Section(LEGAL_NONE, "r"), <<0, 1>>,
                <<Tag("X", "B"), Tag("X", "B")>>, NoneStr) }

AggOutcomes == {Outcome("ok", j) : j \in AggReplies} \cup {Outcome("raise", RiskPlaceholder)}

InitAgg ==
    /\ AtRest
    /\ sel = [kind |-> "none"]
    /\ fn = [kind |-> "none"]
    /\ agg = [ phase |-> "collect", results |-> <<>>, returned |-> {}, out |-> None ]

\* one iteration of the risk loop of run: the judgement _run_risk goes on
\* with is appended to risk_results.  `returned` keeps the legal grades the
\* assess() calls of all iterations returned.
AggRunRisk ==
    /\ agg.phase = "collect"
    /\ Len(agg.results) < TotalIterations
    /\ \E outcomes \in [1..(Max2(1, Passes) + 1) -> AggOutcomes] :
         LET a == assess_with_enrichment(outcomes, KeywordMatches)
             legal == {outcomes[i].reply.legal.grade :
                          i \in {j \in 1..a.calls : outcomes[j].kind = "ok"}}
         IN /\ \A i \in (a.calls + 1)..Len(outcomes) : outcomes[i] = outcomes[1]
            /\ agg' = [agg EXCEPT
                         !.results = Append(@, RunRiskResult(outcomes, KeywordMatches)),
                         !.returned = @ \cup legal]
    /\ UNCHANGED <<db, files, runs, started, faults, http, sel, fn>>

\* aggregated_risk = self._aggregate_risk_results(risk_results)
AggAggregate ==
    /\ agg.phase = "collect"
    /\ Len(agg.results) >= 1
    /\ agg' = [agg EXCEPT !.phase = "output",
                          !.out = Some(AnalysisPipeline_aggregate_risk_results(agg.results))]
    /\ UNCHANGED <<db, files, runs, started, faults, http, sel, fn>>

NextAgg ==
    \/ AggRunRisk
    \/ AggAggregate

SpecAgg == InitAgg /\ [][NextAgg]_vars

\* ================================================================== claims
\* the severity orderings the specification fixes
SocialOrder == <<"A", "B", "C", "D", "E">>
LegalOrder == <<LEGAL_NONE, LEGAL_POSSIBLE, LEGAL_VIOLATION>>
\* the rank of g in an ordering, 0 when g is not of it
Rank(order, g) ==
    IF g \in Range(order) THEN CHOOSE i \in 1..Len(order) : order[i] = g ELSE 0

AggDone == agg.phase = "output"
AggOut == Get(agg.out)
\* the runs (by index) whose tags list the name n
RunsListing(n) ==
    {i \in 1..Len(agg.results) : \E k \in 1..Len(agg.results[i].tags) :
                                    agg.results[i].tags[k].name = n}
\* the grades the runs list for the name n
GradesListed(n) ==
    UNION {{agg.results[i].tags[k].grade :
               k \in {j \in 1..Len(agg.results[i].tags) : agg.results[i].tags[j].name = n}} :
              i \in RunsListing(n)}
NamesListed ==
    UNION {{agg.results[i].tags[k].name : k \in 1..Len(agg.results[i].tags)} :
              i \in 1..Len(agg.results)}

\* C1: the social grade of the aggregated risk equals the maximum of the
\* runs' social grades under A<B<C<D<E, and is never lower than any run's.
C1_SocialGradeIsMax ==
    AggDone =>
        /\ \A i \in 1..Len(agg.results) :
              agg.results[i].social.grade \in Range(SocialOrder)
        /\ \E i \in 1..Len(agg.results) :
              AggOut.social.grade = agg.results[i].social.grade
        /\ \A i \in 1..Len(agg.results) :
              Rank(SocialOrder, AggOut.social.grade)
                 >= Rank(SocialOrder, agg.results[i].social.grade)

\* C2: after the merge of the passes of each iteration and the merge of the
\* iterations, the legal grade is one of the three enumerated values and is
\* the maximum severity among the legal grades the judgement calls returned.
C2_LegalGradeIsMax ==
    (AggDone /\ agg.returned # {}) =>
        /\ AggOut.legal.grade \in Range(LegalOrder)
        /\ AggOut.legal.grade \in agg.returned
        /\ \A g \in agg.returned :
              Rank(LegalOrder, AggOut.legal.grade) >= Rank(LegalOrder, g)

\* C3: every tag name listed by at least two of the runs is output, with the
\* maximum grade (A<B<C<D<E) the runs list for that name.
C3_QuorumTagHasMaxGrade ==
    AggDone =>
        \A n \in NamesListed :
            Cardinality(RunsListing(n)) >= 2 =>
                \E k \in 1..Len(AggOut.tags) :
                    /\ AggOut.tags[k].name = n
                    /\ \A g \in GradesListed(n) :
                          Rank(SocialOrder, AggOut.tags[k].grade) >= Rank(SocialOrder, g)

\* C4: a tag name is output only if at least 2 distinct runs list it; a name
\* listed by one run only, however many times, is never output.
C4_TagNeedsTwoRuns ==
    AggDone =>
        \A k \in 1..Len(AggOut.tags) :
            Cardinality(RunsListing(AggOut.tags[k].name)) >= 2

Analyzing(p) == p \in DOMAIN db /\ db[p].status = "analyzing"

\* C5: mark_pipeline_started on a project whose status is analyzing raises
\* PipelineAlreadyRunningError and leaves the project as it was (also when
\* it is the pipeline task that calls it); start_analysis then answers 409
\* and schedules no run.
C5_DoubleStartIsConflict ==
    [][ /\ \A p \in ProjectIds :
              Analyzing(p) =>
                 /\ mark_pipeline_started(db, p).exc = "PipelineAlreadyRunningError"
                 /\ mark_pipeline_started(db, p).db = db
        /\ \A r \in RunIds :
              (runs[r].pc = "scheduled" /\ runs'[r].pc # "scheduled"
                 /\ Analyzing(runs[r].project_id)) =>
                 /\ db' = db
                 /\ runs'[r].start_exc = "PipelineAlreadyRunningError"
        /\ \A p \in ProjectIds :
              (http' # http /\ http'.project_id = p /\ Analyzing(p)) =>
                 /\ http'.status = 409
                 /\ db' = db
                 /\ runs' = runs
                 /\ started' = started
      ]_vars

\* C5 witness: a start request was answered 409 for a project under analysis
C5_Witness ==
    /\ http.status = 409
    /\ Analyzing(http.project_id)
    /\ \E r \in RunIds : runs[r].start_exc = "PipelineAlreadyRunningError"

\* C6: whatever an AI call of the transcription, OCR, visual-analysis or
\* risk step replies (a normal reply, an error, a non-dict, a reply of an
\* unexpected shape), the step yields a value (a fallback with a note when
\* the call failed), and no run fails because of that call: a run leaves its
\* try block only for a store error or a file error.
C6_AiOutcomeNeverFailsProject ==
    \A r \in RunIds :
        /\ \A i \in 1..Len(runs[r].transcripts) :
              runs[r].transcripts[i].source = "fallback" =>
                 runs[r].transcripts[i].note # NoneStr
        /\ \A i \in 1..Len(runs[r].videos) :
              runs[r].videos[i].result = VideoFallback => runs[r].videos[i].note # NoneStr
        /\ runs[r].pc \in {"except", "raised"} => runs[r].origin \in {"store", "file"}

LastLog(p) == db[p].logs[Len(db[p].logs)]

\* C7: when an exception has left the try block of run, the handler marks
\* the project failed with the exception's message as the last log line and
\* re-raises the same exception; no step is run and no AI call is made by
\* the handler, and a task that has raised does nothing more.
C7_EscapedExceptionFailsProject ==
    [][ \A r \in RunIds :
          /\ (runs[r].pc = "except" /\ runs'[r] # runs[r]) =>
                /\ runs'[r].pc = "raised"
                /\ runs'[r].exc = runs[r].exc
                /\ runs'[r].steps_run = runs[r].steps_run
                /\ runs'[r].ai_calls = runs[r].ai_calls
                /\ db'[runs[r].project_id].status = "failed"
                /\ db'[runs[r].project_id].logs =
                      Append(db[runs[r].project_id].logs,
                             LogEntry("pipeline failed", runs[r].exc))
                /\ db'[runs[r].project_id].step_status
                      = db[runs[r].project_id].step_status
          /\ runs[r].pc = "raised" => runs'[r] = runs[r]
      ]_vars

\* C7 witness: a file error escaped, the project is failed and the log says so
C7_Witness ==
    \E r \in RunIds :
        /\ runs[r].pc = "raised"
        /\ runs[r].origin = "file"
        /\ db[runs[r].project_id].status = "failed"
        /\ LastLog(runs[r].project_id) = LogEntry("pipeline failed", "OSError")

SelDone == sel.phase = "output"
\* len1 and len2 as the selector of sel.kind computes them
ComparedLen(c) ==
    IF sel.kind = "video" THEN JoinedLen(c.result.segments) ELSE StrLen(strip(c.text))
Len1 == ComparedLen(sel.run1)
Len2 == ComparedLen(sel.run2)
\* |len1 - len2| / max(len1, len2, 1) < 0.05, in hundredths
Within5Percent == 100 * Abs(Len1 - Len2) < 5 * Max2(Max2(Len1, Len2), 1)

\* C8: when the compared lengths differ by less than 5% (0 and 0 included),
\* each selector returns run 1 and does not call the arbitration service.
C8_SimilarReturnsRun1 ==
    (SelDone /\ Within5Percent) => (sel.out = sel.run1 /\ ~sel.arbitrated)

\* C8 witness: candidates of different lengths within 5%, run 2 the longer
C8_Witness ==
    /\ SelDone
    /\ Within5Percent
    /\ Len1 < Len2
    /\ sel.out = sel.run1
    /\ sel.kind = "video"

\* C9: when the lengths differ by 5% or more and the arbitration raises or
\* the trailing line of its reply is neither "1" nor "2", the selector
\* returns the longer candidate (run 1 when equal); arbitration picks run 2
\* only with a trailing line "2".
C9_FallbackIsLonger ==
    (SelDone /\ ~Within5Percent) =>
        /\ (sel.reply.kind = "raise" \/ TrailingLine(sel.reply.lines) \notin {"1", "2"}) =>
              sel.out = IF Len1 >= Len2 THEN sel.run1 ELSE sel.run2
        /\ (sel.reply.kind = "ok" /\ TrailingLine(sel.reply.lines) = "1") =>
              sel.out = sel.run1
        /\ (sel.reply.kind = "ok" /\ TrailingLine(sel.reply.lines) = "2") =>
              sel.out = sel.run2

\* C10: for a still image neither extraction run calls the AI service for
\* transcription; each transcription result is the empty text with source
\* "skipped" and a note; the transcription step is recorded completed when
\* _run_transcription returns; OCR and visual analysis have each been called
\* twice when extraction is over.
C10_ImageSkipsTranscription ==
    \A r \in RunIds :
        runs[r].media_type = "image" =>
            /\ runs[r].ai_calls["transcription"] = 0
            /\ \A i \in 1..Len(runs[r].transcripts) :
                  /\ runs[r].transcripts[i].text = EmptyText
                  /\ runs[r].transcripts[i].source = "skipped"
                  /\ runs[r].transcripts[i].note # NoneStr
            /\ (runs[r].pc = "ocr" /\ runs[r].phase = "mark") =>
                  db[runs[r].project_id].step_status["transcription"] = "completed"
            /\ runs[r].pc = "select_transcription" =>
                  /\ Len(runs[r].transcripts) = 2
                  /\ runs[r].ai_calls["ocr"] = 2
                  /\ runs[r].ai_calls["visual"] = 2

\* C10 witness: both extraction runs of a still image are over
C10_Witness ==
    \E r \in RunIds :
        /\ runs[r].media_type = "image"
        /\ runs[r].pc = "select_transcription"
        /\ Len(runs[r].transcripts) = 2
        /\ db[runs[r].project_id].step_status["transcription"] = "completed"

\* what the status and report endpoints show of a finished analysis
ReportComplete(project) ==
    /\ project.status = "completed"
    /\ project.analysis_progress = Len(PROJECT_STEPS)
    /\ \A st \in StepSet : project.step_status[st] = "completed"
    /\ IsSome(project.final_report)
    /\ {"summary", "sections", "files", "risk"} \subseteq DOMAIN Get(project.final_report)
    /\ DOMAIN Get(project.final_report).sections = {"transcription", "ocr", "video_analysis"}
    /\ DOMAIN Get(project.final_report).files
          = {"transcription", "ocr", "video_analysis", "risk_assessment"}
    /\ {"social", "legal", "matrix"} \subseteq DOMAIN Get(project.final_report).risk

\* C11: when a run started through POST /projects/{id}/analyze finishes
\* successfully, the project is completed with progress 1.0, its four steps
\* are completed and final_report holds summary, sections, files and a risk
\* section with social, legal and matrix; a completed project always shows so.
C11_FinishedRunLeavesFullReport ==
    [][ /\ \A r \in DOMAIN runs :
              (runs[r].pc # "done" /\ runs'[r].pc = "done") =>
                 ReportComplete(db'[runs[r].project_id])
        /\ \A p \in ProjectIds :
              db'[p].status = "completed" => ReportComplete(db'[p])
      ]_vars

\* C11 witness: a run is over and its project shows the full report
C11_Witness ==
    \E r \in DOMAIN runs :
        /\ runs[r].pc = "done"
        /\ ReportComplete(db[runs[r].project_id])
        /\ Len(Get(db[runs[r].project_id].final_report).iterations) = TotalIterations

\* ================================================ RiskAssessor.calculate_burn_risk
\* risk_level None
NoRisk == 0
\* tag_risk_map of the assessor exercised: the risk of the taxonomy's names
TagRiskMap == [n \in {"N5", "S3"} |-> IF n = "N5" THEN 5 ELSE 3]
\* self.tag_risk_map.get(name), None when the name is not of the taxonomy
TagRiskOf(name) == IF name \in DOMAIN TagRiskMap THEN TagRiskMap[name] ELSE NoRisk

\* A tag of a judgement as calculate_burn_risk reads it.  A name is given
\* stripped; "" is a missing or blank name.
BurnSub(name, risk_level) == [name |-> name, risk_level |-> risk_level]
BurnTag(name, risk_level, related_sub_tags) ==
    [name |-> name, risk_level |-> risk_level, related_sub_tags |-> related_sub_tags]

\* _risk_label and _risk_grade of the value total/n
\* (value <= 1.5 is 2 * total <= 3 * n, and so on)
_risk_label(total, n) ==
    IF 2 * total <= 3 * n THEN "extremely high"
    ELSE IF 2 * total <= 5 * n THEN "high"
    ELSE IF 2 * total <= 7 * n THEN "medium"
    ELSE IF 2 * total <= 9 * n THEN "somewhat low"
    ELSE "very low"

\* mutant: the thresholds are exclusive
_risk_grade_exclusive(total, n) ==
    IF 2 * total < 3 * n THEN "E"
    ELSE IF 2 * total < 5 * n THEN "D"
    ELSE IF 2 * total < 7 * n THEN "C"
    ELSE IF 2 * total < 9 * n THEN "B"
    ELSE "A"

_risk_grade(total, n) ==
    IF 2 * total <= 3 * n THEN "E"
    ELSE IF 2 * total <= 5 * n THEN "D"
    ELSE IF 2 * total <= 7 * n THEN "C"
    ELSE IF 2 * total <= 9 * n THEN "B"
    ELSE "A"

\* _register, local to calculate_burn_risk: risk_entries after the call.  An
\* entry without a name is displayed as TAG_<k> or SUBTAG_<k>, k its position:
\* `anon` keeps k (0 for a named entry).  `seen` is the set of the keys of
\* risk_entries.
_register(risk_entries, name, risk, entry_type, parent_tag) ==
    LET anon == IF name = "" THEN Len(risk_entries) + 1 ELSE 0
        key == <<entry_type, name, anon>>
        seen == {<<risk_entries[i].type, risk_entries[i].name, risk_entries[i].anon>> :
                    i \in 1..Len(risk_entries)}
    IN IF risk = NoRisk THEN risk_entries
       ELSE IF key \in seen THEN risk_entries
       ELSE Append(risk_entries,
                   [ name |-> name, anon |-> anon, risk |-> risk,
                     label |-> _risk_label(risk, 1), type |-> entry_type,
                     parent_tag |-> IF entry_type = "subtag" THEN parent_tag ELSE "" ])

\* the risk of a tag or sub-tag: its risk_level, else the taxonomy's
ResolvedRisk(t) ==
    IF t.risk_level # NoRisk THEN t.risk_level
    ELSE IF t.name # "" THEN TagRiskOf(t.name) ELSE NoRisk

RECURSIVE RegisterSubs(_, _, _)
\* the loop over related_sub_tags
RegisterSubs(risk_entries, subs, parent_tag) ==
    IF subs = <<>> THEN risk_entries
    ELSE RegisterSubs(_register(risk_entries, subs[1].name, ResolvedRisk(subs[1]),
                                "subtag", parent_tag),
                      Tail(subs), parent_tag)

RECURSIVE RegisterTags(_, _)
\* the loop over tags
RegisterTags(risk_entries, tags) ==
    IF tags = <<>> THEN risk_entries
    ELSE RegisterTags(
            RegisterSubs(_register(risk_entries, tags[1].name, ResolvedRisk(tags[1]),
                                   "tag", ""),
                         tags[1].related_sub_tags, tags[1].name),
            Tail(tags))

RECURSIVE SortedByRisk(_, _, _)
\* sorted(risk_entries, key=risk) for risks in lo..hi: stable
SortedByRisk(risk_entries, lo, hi) ==
    IF lo > hi THEN <<>>
    ELSE SelectSeq(risk_entries, LAMBDA e : e.risk = lo)
            \o SortedByRisk(risk_entries, lo + 1, hi)

RECURSIVE SeqMin(_)
SeqMin(values) ==
    IF Len(values) = 1 THEN values[1]
    ELSE LET m == SeqMin(Tail(values)) IN IF values[1] <= m THEN values[1] ELSE m

\* round(total / n, 2) in hundredths.  A tie goes to the even hundredth; it
\* is exact in binary only when n is a multiple of 8.
Round2(total, n) ==
    LET q == (100 * total) \div n
        rem == (100 * total) % n
    IN IF 2 * rem < n THEN q
       ELSE IF 2 * rem > n THEN q + 1
       ELSE IF q % 2 = 0 THEN q ELSE q + 1

\* calculate_burn_risk(tags); `average` is in hundredths
calculate_burn_risk(tags) ==
    LET risk_entries == RegisterTags(<<>>, tags)
        risks == [i \in 1..Len(risk_entries) |-> risk_entries[i].risk]
        total == SeqSum(risks)
    IN IF tags = <<>> \/ risk_entries = <<>> THEN [count |-> 0, details |-> <<>>]
       ELSE [ count |-> Len(risk_entries),
              average |-> Round2(total, Len(risks)),
              grade |-> _risk_grade(total, Len(risks)),
              label |-> _risk_label(total, Len(risks)),
              min |-> SeqMin(risks),
              max |-> SeqMax(risks, 0),
              details |-> SortedByRisk(risk_entries, SeqMin(risks), SeqMax(risks, 0)) ]

\* ---------------------------------------- calculate_burn_risk on its own
\* tags handed to calculate_burn_risk at once
MaxTags == 3

\* tags of every weight 1..5, two names of equal weight, a tag resolved by
\* the taxonomy, an unnamed tag, a tag of unknown weight and a tag with a
\* sub-tag (weights 5 and 3)
BurnTagChoices ==
    { BurnTag("N1", 1, <<>>), BurnTag("M1", 1, <<>>), BurnTag("N2", 2, <<>>),
      BurnTag("N3", 3, <<>>), BurnTag("N4", 4, <<>>), BurnTag("N5", 5, <<>>),
      BurnTag("N5", NoRisk, <<>>), BurnTag("", 4, <<>>), BurnTag("U", NoRisk, <<>>),
      BurnTag("N5", 5, <<BurnSub("S3", NoRisk)>>),
      BurnTag("N2", 2, <<BurnSub("", 1), BurnSub("M1", 1)>>) }

InitBurn ==
    /\ AtRest
    /\ sel = [kind |-> "none"]
    /\ agg = [kind |-> "none"]
    /\ \E n \in 0..MaxTags :
         \E tags \in [1..n -> BurnTagChoices] :
            fn = [kind |-> "burn", phase |-> "input", tags |-> tags, out |-> None]

ApplyCalculateBurnRisk ==
    /\ fn.kind = "burn"
    /\ fn.phase = "input"
    /\ fn' = [fn EXCEPT !.phase = "output", !.out = Some(calculate_burn_risk(fn.tags))]
    /\ UNCHANGED <<db, files, runs, started, faults, http, sel, agg>>

NextBurn == ApplyCalculateBurnRisk

SpecBurn == InitBurn /\ [][NextBurn]_vars

BurnDone == fn.kind = "burn" /\ fn.phase = "output"
BurnOut == Get(fn.out)
\* the integer weights the tag set resolves to
BurnWeights ==
    LET e == RegisterTags(<<>>, fn.tags) IN [i \in 1..Len(e) |-> e[i].risk]
BurnGradeOf(total, n) ==
    IF 10 * total <= 15 * n THEN "E"
    ELSE IF 10 * total <= 25 * n THEN "D"
    ELSE IF 10 * total <= 35 * n THEN "C"
    ELSE IF 10 * total <= 45 * n THEN "B"
    ELSE "A"
BurnStatsRight ==
    /\ BurnOut.count = Len(BurnWeights)
    /\ BurnOut.min \in Range(BurnWeights)
    /\ BurnOut.max \in Range(BurnWeights)
    /\ \A w \in Range(BurnWeights) : BurnOut.min <= w /\ w <= BurnOut.max
    /\ BurnOut.grade = BurnGradeOf(SeqSum(BurnWeights), Len(BurnWeights))
    /\ (BurnOut.grade = "B") = (BurnOut.label = "somewhat low")

\* C12 as stated: for k >= 1 weights in 1..5 the profile has count k, the
\* minimum, the maximum, the grade and label of the thresholds, and an
\* average that is the arithmetic mean of the weights.
C12_AverageIsMean ==
    (BurnDone /\ Len(BurnWeights) >= 1) =>
        /\ BurnStatsRight
        /\ BurnOut.average * Len(BurnWeights) = 100 * SeqSum(BurnWeights)

\* C12 amended: the same, with the average the arithmetic mean rounded to
\* two decimals (the nearest hundredth); grade and label are those of the
\* mean before rounding.
C12_AverageIsRoundedMean ==
    (BurnDone /\ Len(BurnWeights) >= 1) =>
        /\ BurnStatsRight
        /\ 2 * Abs(BurnOut.average * Len(BurnWeights) - 100 * SeqSum(BurnWeights))
              <= Len(BurnWeights)

\* C12 witness: weights [5, 3] give average 4.0, grade B, min 3, max 5, count 2
C12_Witness ==
    /\ BurnDone
    /\ BurnWeights = <<5, 3>>
    /\ BurnOut.average = 400
    /\ BurnOut.grade = "B"
    /\ BurnOut.label = "somewhat low"
    /\ BurnOut.min = 3
    /\ BurnOut.max = 5
    /\ BurnOut.count = 2


(***************************************************************************)
(* RiskAssessor._screen_with_cases (risk_assessor.py 407-532).  The        *)
(* SequenceMatcher ratio of the combined text against a row's trigger or   *)
(* definition is carried with the row, in hundredths.                      *)
(***************************************************************************)
MaxCases == 1
MaxEntries == 1
FallbackCaseTag == "burn case"
EntryThreshold == 55

ratio_to_grade(value) ==
    IF value > 75 THEN "E"
    ELSE IF value > 60 THEN "D"
    ELSE IF value > 45 THEN "C"
    ELSE IF value > 30 THEN "B"
    ELSE "A"

ScreenGrades == {"C", "D", "E"}

CaseAccepted_any(grade) == TRUE

\* grade not in {"C", "D", "E"}: continue
CaseAccepted(grade) == grade \in ScreenGrades

\* one row of case_reference_rows becomes at most one candidate
ScreenCase(record) ==
    LET grade == ratio_to_grade(record.ratio)
        tag_name == IF record.tag = "" THEN FallbackCaseTag ELSE record.tag
    IN  IF record.trigger = "" \/ ~CaseAccepted(grade) THEN <<>>
        ELSE <<[name |-> tag_name,
                grade |-> grade,
                detected_text |-> record.trigger,
                related_sub_tags |->
                    IF record.sub_tag = "" THEN <<>>
                    ELSE <<[name |-> record.sub_tag, grade |-> grade,
                            detected_text |-> record.trigger]>>]>>

\* one entry of tag_definition_entries becomes at most one candidate
ScreenEntry(entry) ==
    LET g0 == ratio_to_grade(entry.ratio)
        grade == IF g0 \in ScreenGrades THEN g0 ELSE "C"
        is_subtag == entry.type = "subtag"
        parent == IF is_subtag /\ entry.parent = "" THEN entry.name ELSE entry.parent
    IN  IF entry.definition = "" \/ entry.name = "" THEN <<>>
        ELSE IF entry.ratio <= EntryThreshold THEN <<>>
        ELSE <<[name |-> IF is_subtag THEN parent ELSE entry.name,
                grade |-> grade,
                detected_text |-> entry.definition,
                related_sub_tags |->
                    IF is_subtag
                    THEN <<[name |-> entry.name, grade |-> grade,
                            detected_text |-> entry.definition]>>
                    ELSE <<>>]>>

RECURSIVE ScreenCases(_)
ScreenCases(cases) ==
    IF cases = <<>> THEN <<>>
    ELSE ScreenCase(Head(cases)) \o ScreenCases(Tail(cases))

RECURSIVE ScreenEntries(_)
ScreenEntries(entries) ==
    IF entries = <<>> THEN <<>>
    ELSE ScreenEntry(Head(entries)) \o ScreenEntries(Tail(entries))

_screen_with_cases(cases, tag_entries, combined) ==
    IF cases = <<>> /\ tag_entries = <<>> THEN <<>>
    ELSE IF combined = "" THEN <<>>
    ELSE ScreenCases(cases) \o ScreenEntries(tag_entries)

ScreenRatios == {30, 46, 55, 56, 61, 76}

CaseChoices ==
    {[trigger |-> "", ratio |-> 0, tag |-> "T", sub_tag |-> ""]}
    \cup [trigger : {"trigger"}, ratio : ScreenRatios,
          tag : {"", "T"}, sub_tag : {"", "S"}]

EntryChoices ==
    {[definition |-> "", ratio |-> 0, name |-> "T", type |-> "tag", parent |-> ""],
     [definition |-> "definition", ratio |-> 76, name |-> "", type |-> "tag", parent |-> ""]}
    \cup [definition : {"definition"}, ratio : ScreenRatios \ {30},
          name : {"S"}, type : {"tag", "subtag"}, parent : {"", "T"}]

InitScreen ==
    /\ AtRest
    /\ sel = [kind |-> "none"]
    /\ agg = [kind |-> "none"]
    /\ \E nc \in 0..MaxCases, ne \in 0..MaxEntries :
         \E cases \in [1..nc -> CaseChoices], entries \in [1..ne -> EntryChoices],
            combined \in {"", "text"} :
            fn = [kind |-> "screen", phase |-> "input", cases |-> cases,
                  entries |-> entries, combined |-> combined, out |-> None]

ApplyScreenWithCases ==
    /\ fn.kind = "screen"
    /\ fn.phase = "input"
    /\ fn' = [fn EXCEPT !.phase = "output",
                        !.out = Some(_screen_with_cases(fn.cases, fn.entries, fn.combined))]
    /\ UNCHANGED <<db, files, runs, started, faults, http, sel, agg>>

NextScreen == ApplyScreenWithCases

SpecScreen == InitScreen /\ [][NextScreen]_vars

ScreenDone == fn.kind = "screen" /\ fn.phase = "output"
ScreenOut == Get(fn.out)

\* C13: every candidate _screen_with_cases emits, and every sub-tag nested
\* in a candidate, carries a grade of C, D or E.
C13_ScreenedGradesAreCDE ==
    ScreenDone =>
        \A i \in 1..Len(ScreenOut) :
            /\ ScreenOut[i].grade \in ScreenGrades
            /\ \A j \in 1..Len(ScreenOut[i].related_sub_tags) :
                   ScreenOut[i].related_sub_tags[j].grade \in ScreenGrades

\* C13 witness: a case row whose trigger is similar enough is emitted with
\* its sub-tag, both graded C
C13_Witness ==
    /\ ScreenDone
    /\ Len(fn.cases) = 1
    /\ Len(ScreenOut) >= 1
    /\ ScreenOut[1].name = "T"
    /\ ScreenOut[1].grade = "C"
    /\ Len(ScreenOut[1].related_sub_tags) = 1
    /\ ScreenOut[1].related_sub_tags[1].grade = "C"

(***************************************************************************)
(* RiskAssessor._load_tag_structure (risk_assessor.py 727-788): the rows   *)
(* of the taxonomy sheet become top-level tags and their sub-tags.  A cell *)
(* is a string, or NaN for an empty cell; a risk cell is a number in       *)
(* tenths, or NoNumber for an empty cell.                                  *)
(***************************************************************************)
MaxRows == 2
NaN == "NaN"
\* the NaN of an empty risk cell, kept apart from every number a cell holds
NoNumber == -1
DefinitionMarker == "定義"
HeaderLabel == "タグ1"

\* str(tag).strip() over the tag cells of the sheet
StripCell(cell) ==
    CASE cell = " T1 " -> "T1"
      [] cell = " タグ1" -> "タグ1"
      [] OTHER -> cell

\* round() of Python: to the nearest integer, a half to the even one
PyRound(tenths) ==
    LET q == tenths \div 10
        r == tenths % 10
    IN  IF r < 5 THEN q
        ELSE IF r > 5 THEN q + 1
        ELSE IF q % 2 = 0 THEN q ELSE q + 1

_parse_risk_value(value) ==
    IF value = NoNumber THEN NoRisk
    ELSE IF value <= 0 THEN NoRisk
    ELSE IF 1 <= PyRound(value) /\ PyRound(value) <= 5 THEN PyRound(value)
    ELSE NoRisk

DefinitionText(definition) == IF definition = NaN THEN "" ELSE definition

\* mutant: the tag read last stands for the tag of the name
FirstNamed_last(structure, name) == Len(structure)

\* index of the first item of the structure with this name, 0 for none
FirstNamed(structure, name) ==
    LET hits == {i \in 1..Len(structure) : structure[i].name = name}
    IN  IF hits = {} THEN 0 ELSE CHOOSE i \in hits : \A j \in hits : i <= j

SkipHeader_never(tag) == FALSE

\* if tag == "タグ1": continue
SkipHeader(tag) == tag = HeaderLabel

\* one turn of the loop over the rows; st holds the structure, the index of
\* current_tag in it (0 for None) and parsing_subtags
LoadRow(st, row) ==
    LET tag == StripCell(row.tag)
        risk_value == _parse_risk_value(row.risk)
        found == FirstNamed(st.structure, tag)
    IN  IF row.tag = NaN
        THEN [st EXCEPT !.parsing_subtags = FALSE, !.current_tag = 0]
        ELSE IF SkipHeader(tag) THEN st
        ELSE IF row.definition # NaN /\ StripCell(row.definition) = DefinitionMarker
        THEN IF found = 0
             THEN [structure |-> Append(st.structure,
                                     [name |-> tag, definition |-> "",
                                      sub_tags |-> <<>>, risk |-> risk_value]),
                   current_tag |-> Len(st.structure) + 1,
                   parsing_subtags |-> TRUE]
             ELSE [structure |->
                       IF risk_value # NoRisk
                       THEN [st.structure EXCEPT ![found].risk = risk_value]
                       ELSE st.structure,
                   current_tag |-> found,
                   parsing_subtags |-> TRUE]
        ELSE IF ~st.parsing_subtags
        THEN [st EXCEPT !.structure =
                 Append(@, [name |-> tag,
                            definition |-> DefinitionText(row.definition),
                            sub_tags |-> <<>>, risk |-> risk_value])]
        ELSE IF st.current_tag = 0 THEN st
        ELSE [st EXCEPT !.structure[st.current_tag].sub_tags =
                 Append(@, [name |-> tag,
                            definition |-> DefinitionText(row.definition),
                            risk |-> risk_value])]

RECURSIVE LoadRows(_, _)
LoadRows(st, rows) ==
    IF rows = <<>> THEN st ELSE LoadRows(LoadRow(st, Head(rows)), Tail(rows))

_load_tag_structure(rows) ==
    LoadRows([structure |-> <<>>, current_tag |-> 0, parsing_subtags |-> FALSE],
             rows).structure

TagCells == {NaN, "タグ1", "T1", " T1 ", "T2"}
DefinitionCells == {NaN, "定義", "d"}
RiskCells == {NoNumber, 25, 60}
SheetRows == [tag : TagCells, definition : DefinitionCells, risk : RiskCells]

InitLoad ==
    /\ AtRest
    /\ sel = [kind |-> "none"]
    /\ agg = [kind |-> "none"]
    /\ \E n \in 0..MaxRows :
         \E rows \in [1..n -> SheetRows] :
            fn = [kind |-> "load", phase |-> "input", rows |-> rows, out |-> None]

ApplyLoadTagStructure ==
    /\ fn.kind = "load"
    /\ fn.phase = "input"
    /\ fn' = [fn EXCEPT !.phase = "output", !.out = Some(_load_tag_structure(fn.rows))]
    /\ UNCHANGED <<db, files, runs, started, faults, http, sel, agg>>

NextLoad == ApplyLoadTagStructure

SpecLoad == InitLoad /\ [][NextLoad]_vars

LoadDone == fn.kind = "load" /\ fn.phase = "output"
LoadOut == Get(fn.out)
NoMarker == \A i \in 1..Len(fn.rows) : fn.rows[i].definition # DefinitionMarker
NoSubTags == \A i \in 1..Len(LoadOut) : LoadOut[i].sub_tags = <<>>
\* the stripped tag cells of the rows that pass keep, in source order
RECURSIVE NamesOf(_, _)
NamesOf(rows, header) ==
    IF rows = <<>> THEN <<>>
    ELSE LET row == Head(rows)
             keep == row.tag # NaN /\ (header \/ StripCell(row.tag) # HeaderLabel)
         IN  (IF keep THEN <<StripCell(row.tag)>> ELSE <<>>) \o NamesOf(Tail(rows), header)
LoadNames == [i \in 1..Len(LoadOut) |-> LoadOut[i].name]

\* C14 as stated: without a marker row, every row with a non-blank tag cell
\* is returned as a top-level tag, in source order, and no tag has sub-tags.
C14_EveryRowIsTopLevel ==
    (LoadDone /\ NoMarker) =>
        /\ LoadNames = NamesOf(fn.rows, TRUE)
        /\ NoSubTags

\* C14 amended: without a marker row, every row with a non-blank tag cell
\* other than the header label "タグ1" is returned as a top-level tag, in
\* source order, and no tag has sub-tags.
C14_EveryNonHeaderRowIsTopLevel ==
    (LoadDone /\ NoMarker) =>
        /\ LoadNames = NamesOf(fn.rows, FALSE)
        /\ NoSubTags

\* C14 witness: two tag rows without a marker come back as two top-level
\* tags in their order
C14_Witness ==
    /\ LoadDone
    /\ NoMarker
    /\ Len(fn.rows) = 2
    /\ LoadNames = <<"T2", "T1">>
    /\ NoSubTags

(***************************************************************************)
(* RiskAssessor._scan_tag_matches (risk_assessor.py 343-405): the keyword  *)
(* scan of the transcript and the OCR text against the taxonomy.  A text   *)
(* is a sequence of characters here, so that joining, lower-casing,        *)
(* splitting and the substring search are computed as the code does.       *)
(***************************************************************************)
MaxText == 2
DefaultScanRisk == 3
Newline == "\n"
Separators == {"/", "|", ",", " ", Newline}

LowerChar(c) == CASE c = "A" -> "a" [] c = "B" -> "b" [] OTHER -> c
Lower(text) == [i \in 1..Len(text) |-> LowerChar(text[i])]

Combined_unseparated(transcript, ocr_text) == Lower(transcript \o ocr_text)

\* f"{transcript}\n{ocr_text}".lower()
Combined(transcript, ocr_text) == Lower(transcript \o <<Newline>> \o ocr_text)

\* kw.lower() in combined
Contains(combined, kw) ==
    \E i \in 0..(Len(combined) - Len(kw)) :
        SubSeq(combined, i + 1, i + Len(kw)) = Lower(kw)

\* replace the separators by blanks, split on white space: the maximal runs
\* of other characters, in order
RECURSIVE SplitTokens(_, _)
SplitTokens(definition, token) ==
    IF definition = <<>>
    THEN IF token = <<>> THEN <<>> ELSE <<token>>
    ELSE IF Head(definition) \in Separators
    THEN (IF token = <<>> THEN <<>> ELSE <<token>>) \o SplitTokens(Tail(definition), <<>>)
    ELSE SplitTokens(Tail(definition), Append(token, Head(definition)))

extract_keywords(definition) == SplitTokens(definition, <<>>)

\* the first keyword found in the combined text, <<>> for None
RECURSIVE find_keyword(_, _)
find_keyword(combined, keywords) ==
    IF keywords = <<>> THEN <<>>
    ELSE IF Head(keywords) # <<>> /\ Contains(combined, Head(keywords)) THEN Head(keywords)
    ELSE find_keyword(combined, Tail(keywords))

ScanRisk(risk, fallback) == IF risk # NoRisk THEN risk ELSE fallback

RECURSIVE ScanSubs(_, _, _)
ScanSubs(combined, tag, sub_tags) ==
    IF sub_tags = <<>> THEN <<>>
    ELSE LET sub == Head(sub_tags)
             sub_hit == find_keyword(combined, extract_keywords(sub.definition))
             risk == ScanRisk(sub.risk, ScanRisk(tag.risk, DefaultScanRisk))
         IN  (IF sub.name # "" /\ sub_hit # <<>>
              THEN <<[name |-> sub.name, grade |-> _risk_grade(risk, 1),
                      detected_text |-> sub_hit]>>
              ELSE <<>>) \o ScanSubs(combined, tag, Tail(sub_tags))

RECURSIVE ScanTags(_, _)
ScanTags(combined, tag_structure) ==
    IF tag_structure = <<>> THEN <<>>
    ELSE LET tag == Head(tag_structure)
             keyword_hit == find_keyword(combined, extract_keywords(tag.definition))
             related_matches == ScanSubs(combined, tag, tag.sub_tags)
         IN  (IF tag.name # "" /\ (keyword_hit # <<>> \/ related_matches # <<>>)
              THEN <<[name |-> tag.name,
                      grade |-> _risk_grade(ScanRisk(tag.risk, DefaultScanRisk), 1),
                      detected_text |->
                          IF keyword_hit # <<>> THEN keyword_hit
                          ELSE related_matches[1].detected_text,
                      related_sub_tags |-> related_matches]>>
              ELSE <<>>) \o ScanTags(combined, Tail(tag_structure))

_scan_tag_matches(tag_structure, transcript, ocr_text) ==
    ScanTags(Combined(transcript, ocr_text), tag_structure)

TextChars == {"a", "b", "B"}
Texts == UNION {[1..n -> TextChars] : n \in 0..MaxText}
ScanDefinitions ==
    {<<>>, <<"a">>, <<"a", "b">>, <<"b", "/", "a">>, <<"B", "a">>, <<"c">>}
ScanSubTags ==
    {<<>>} \cup {<<[name |-> "S", definition |-> d, risk |-> NoRisk]>> : d \in ScanDefinitions}
ScanStructures ==
    {<<[name |-> n, definition |-> d, risk |-> 2, sub_tags |-> s]>> :
        n \in {"", "T"}, d \in ScanDefinitions, s \in ScanSubTags}

InitScan ==
    /\ AtRest
    /\ sel = [kind |-> "none"]
    /\ agg = [kind |-> "none"]
    /\ \E a \in Texts, b \in Texts, t \in ScanStructures :
          fn = [kind |-> "scan", phase |-> "input", tag_structure |-> t,
                a |-> a, b |-> b, first |-> None, swapped |-> None, again |-> None]

\* the scan of (transcript a, OCR text b)
ApplyScanTagMatches ==
    /\ fn.kind = "scan"
    /\ fn.phase = "input"
    /\ fn' = [fn EXCEPT !.phase = "scanned",
                        !.first = Some(_scan_tag_matches(fn.tag_structure, fn.a, fn.b))]
    /\ UNCHANGED <<db, files, runs, started, faults, http, sel, agg>>

\* the scan of (transcript b, OCR text a)
ApplyScanSwapped ==
    /\ fn.kind = "scan"
    /\ fn.phase = "scanned"
    /\ fn' = [fn EXCEPT !.phase = "swapped",
                        !.swapped = Some(_scan_tag_matches(fn.tag_structure, fn.b, fn.a))]
    /\ UNCHANGED <<db, files, runs, started, faults, http, sel, agg>>

\* the first scan once more
ApplyScanAgain ==
    /\ fn.kind = "scan"
    /\ fn.phase = "swapped"
    /\ fn' = [fn EXCEPT !.phase = "repeated",
                        !.again = Some(_scan_tag_matches(fn.tag_structure, fn.a, fn.b))]
    /\ UNCHANGED <<db, files, runs, started, faults, http, sel, agg>>

NextScan ==
    \/ ApplyScanTagMatches
    \/ ApplyScanSwapped
    \/ ApplyScanAgain

SpecScan == InitScan /\ [][NextScan]_vars

ScanDone == fn.kind = "scan" /\ fn.phase = "repeated"
\* the names of the matched tags and sub-tags of a scan result
MatchedNames(matches) ==
    {matches[i].name : i \in 1..Len(matches)}
    \cup UNION {{matches[i].related_sub_tags[j].name :
                    j \in 1..Len(matches[i].related_sub_tags)} : i \in 1..Len(matches)}

\* C15: the scan of (transcript A, OCR text B) and the scan of (transcript
\* B, OCR text A) match the same set of tag and sub-tag names, and a
\* repeated scan of the same inputs returns the same result.
C15_ScanIsOrderIndependent ==
    ScanDone =>
        /\ MatchedNames(Get(fn.first)) = MatchedNames(Get(fn.swapped))
        /\ Get(fn.again) = Get(fn.first)

\* C15 witness: two different texts, the keyword found in only one of them,
\* and a tag with its sub-tag matched by all three scans
C15_Witness ==
    /\ ScanDone
    /\ fn.a = <<"a">>
    /\ fn.b = <<"B">>
    /\ MatchedNames(Get(fn.first)) = {"T", "S"}
    /\ MatchedNames(Get(fn.swapped)) = {"T", "S"}

\* ===================================================== the store under the run
\* C16: every update of a project is one atomic read-modify-write under the
\* store lock; for _apply_step_overrides this means that no other call of
\* the store runs between its get_project and its save: once it holds the
\* copy it has read, the next step taken is its own save.
C16_OverridesReadAndWriteAreOneStep ==
    [][ \A r \in DOMAIN runs :
            runs[r].pc = "overrides_save" => runs'[r].pc # "overrides_save"
      ]_vars

\* C17: a run that finds its project already analyzing, told so by
\* PipelineAlreadyRunningError, executes no extraction step and no risk step.
C17_AlreadyRunningRunsNoStep ==
    \A r \in DOMAIN runs :
        runs[r].start_exc = "PipelineAlreadyRunningError" => runs[r].steps_run = 0

\* a run that has begun and has not ended
Executing(r) == runs[r].pc \notin {"idle", "returned", "done", "raised"}
Ended(r) == runs[r].pc \in {"returned", "done", "raised"}

\* C18: whatever the interleaving of start_analysis requests with the runs
\* they schedule, at most one run of the project is executing at any time,
\* and a further run is scheduled only when every earlier one has ended and
\* has left the project completed or failed.
C18_OneRunAtATime ==
    /\ [](\A r1, r2 \in DOMAIN runs :
             (Executing(r1) /\ Executing(r2)
                 /\ runs[r1].project_id = runs[r2].project_id) => r1 = r2)
    /\ [][ \A r \in DOMAIN runs :
               (runs[r].pc = "idle" /\ runs'[r].pc = "scheduled") =>
                   \A q \in DOMAIN runs \ {r} :
                       runs[q].pc # "idle" =>
                           /\ Ended(q)
                           /\ db[runs[q].project_id].status \in {"completed", "failed"}
         ]_vars

\* C18 witness: a second run executes a step after the first one has ended,
\* while a further start_analysis request has been answered with a conflict
C18_Witness ==
    \E r1, r2 \in DOMAIN runs :
        /\ Ended(r1)
        /\ Executing(r2)
        /\ runs[r2].steps_run > 0
        /\ http.status = 409

\* ------------------------------------------------- the runs under a fair loop
\* a step of the task r other than the risk judgement and the final report:
\* the call it awaits returns or raises and the task goes on to its next await
RunStep(r) ==
    \/ RunBegin(r)
    \/ RunInit(r)
    \/ MarkStepRunning(r)
    \/ RunTranscription(r)
    \/ RunOcr(r)
    \/ RunVisualAnalysis(r)
    \/ SelectBestTranscription(r)
    \/ SelectBestOcr(r)
    \/ SelectBestVideo(r)
    \/ UpdateIteration(r)
    \/ ApplyStepOverridesGet(r)
    \/ ApplyStepOverridesSave(r)
    \/ MarkPipelineCompleted(r)
    \/ HandleException(r)

\* the task r awaits assess_with_enrichment in _run_risk.  RunRisk(r) is
\* enabled exactly here (the judgement that answers at every call is within
\* the fault budget) and every RunRisk(r) step leaves this place.
AwaitsRisk(r) == runs[r].pc = "risk" /\ runs[r].phase = "call"

\* the task r awaits the file write of _finalize_with_single_extraction.
\* Finalize(r) is enabled exactly here (the write that succeeds is within the
\* fault budget) and every Finalize(r) step leaves this place.
AwaitsReport(r) == runs[r].pc = "finalize"

\* The event loop resumes every scheduled task, and every call to an AI
\* service, to the store and to the file system returns or raises in the
\* end.  For RunRisk(r) and Finalize(r) weak fairness is written by what it
\* amounts to: the task does not await that call forever.
SpecLive ==
    /\ InitRestart
    /\ [][Next]_vars
    /\ \A r \in 1..MaxRestarts : WF_vars(RunStep(r))
    /\ \A r \in 1..MaxRestarts : []<>(~AwaitsRisk(r))
    /\ \A r \in 1..MaxRestarts : []<>(~AwaitsReport(r))

\* C19: every run of an existing project ends, and ends with the project
\* completed or failed; when every run scheduled so far has returned or
\* raised, the project is not left analyzing.
C19_RunEndsCompletedOrFailed ==
    /\ \A r \in 1..MaxRestarts : (runs[r].pc = "scheduled") ~> Ended(r)
    /\ [][ \A r \in DOMAIN runs :
               (~Ended(r) /\ Ended(r)') =>
                   db'[runs[r].project_id].status \in {"completed", "failed"}
         ]_vars
    /\ []( ((\E r \in DOMAIN runs : Ended(r)) /\ (\A r \in DOMAIN runs : ~Executing(r)))
              => \A p \in ProjectIds : db[p].status # "analyzing" )

\* C19 witness: a run ended by raising after it had executed steps, and its
\* project is failed
C19_Witness ==
    \E r \in DOMAIN runs :
        /\ runs[r].pc = "raised"
        /\ runs[r].steps_run > 0
        /\ db[runs[r].project_id].status = "failed"

\* ------------------------------------------------------ the risk iterations
ExtractionPcs ==
    {"transcription", "ocr", "visual",
     "select_transcription", "select_ocr", "select_video"}
AfterRiskPcs == {"finalize", "overrides_get", "overrides_save", "complete", "done"}

\* C20: a run judges the risk exactly total_iterations (3) times, every
\* time on the extraction outputs selected before the first judgement;
\* current_iteration is 0 during extraction and k from just before the k-th
\* judgement, rising by one; 0 <= current_iteration <= total_iterations in
\* every state, and current_iteration = total_iterations whenever the
\* project is completed.
C20_ThreeJudgementsCounted ==
    /\ [](\A p \in ProjectIds :
             /\ 0 <= db[p].current_iteration
             /\ db[p].current_iteration <= db[p].total_iterations
             /\ db[p].status = "completed" =>
                    db[p].current_iteration = db[p].total_iterations)
    /\ [](\A r \in DOMAIN runs :
             /\ Len(runs[r].risk_results) <= TotalIterations
             /\ runs[r].pc \in AfterRiskPcs =>
                    /\ Len(runs[r].risk_results) = TotalIterations
                    /\ db[runs[r].project_id].total_iterations = TotalIterations
             /\ runs[r].pc \in ExtractionPcs =>
                    db[runs[r].project_id].current_iteration = 0
             /\ runs[r].pc = "risk" =>
                    /\ runs[r].iteration = Len(runs[r].risk_results) + 1
                    /\ db[runs[r].project_id].current_iteration = runs[r].iteration)
    /\ [][ \A r \in DOMAIN runs :
               /\ (runs[r].pc = "iteration" /\ runs'[r].pc = "risk") =>
                      db'[runs[r].project_id].current_iteration
                          = Len(runs[r].risk_results) + 1
               /\ (runs[r].pc \in {"iteration", "risk"} /\ runs'[r].pc # "except") =>
                      /\ runs'[r].transcript = runs[r].transcript
                      /\ runs'[r].ocr = runs[r].ocr
                      /\ runs'[r].video = runs[r].video
         ]_vars

\* C20 witness: a second run of the project is at its third judgement, and
\* the project shows iteration 3 of 3
C20_Witness ==
    \E r1, r2 \in DOMAIN runs :
        /\ runs[r1].pc = "done"
        /\ runs[r2].pc = "risk"
        /\ runs[r2].phase = "call"
        /\ Len(runs[r2].risk_results) = TotalIterations - 1
        /\ db[runs[r2].project_id].current_iteration = TotalIterations
        /\ db[runs[r2].project_id].status = "analyzing"

\* ============================================ the judgements' reasons and findings
\* A finding as _normalize_findings leaves it, and a section that carries
\* its findings.
Finding(timecode, detail) == [timecode |-> timecode, detail |-> detail]
FullSection(grade, reason, findings) ==
    [grade |-> grade, reason |-> reason, findings |-> findings]

\* section.get("findings") or []
findings_of(section) ==
    IF "findings" \in DOMAIN section THEN section.findings ELSE <<>>

\* the replies of assess(): a mild judgement and a severe one, with their
\* own reasons and findings
MergeReplies ==
    { Judgement(FullSection("A", "r1", <<Finding("00:01", "d1")>>),
                FullSection(LEGAL_NONE, "l1", <<>>),
                <<0, 0>>, <<>>, NoneStr),
      Judgement(FullSection("E", "r2", <<Finding("00:02", "d2"), Finding("00:04", "d1")>>),
                FullSection(LEGAL_VIOLATION, "l2", <<Finding("00:03", "d3")>>),
                <<2, 4>>, <<>>, NoneStr) }

MergeOutcomes ==
    {Outcome("ok", j) : j \in MergeReplies} \cup {Outcome("raise", RiskPlaceholder)}

InitMerge ==
    /\ AtRest
    /\ sel = [kind |-> "none"]
    /\ agg = [kind |-> "none"]
    /\ fn = [ kind |-> "merge", phase |-> "collect", results |-> <<>>,
              failed |-> <<>>, out |-> None ]

\* one iteration of the risk loop of run: _run_risk appends the merged
\* judgement of its passes, or the placeholder when assess_with_enrichment
\* raised (`failed` records which)
MergeRunRisk ==
    /\ fn.kind = "merge"
    /\ fn.phase = "collect"
    /\ Len(fn.results) < TotalIterations
    /\ \E outcomes \in [1..(Max2(1, Passes) + 1) -> MergeOutcomes] :
         LET a == assess_with_enrichment(outcomes, KeywordMatches)
         IN /\ \A i \in (a.calls + 1)..Len(outcomes) : outcomes[i] = outcomes[1]
            /\ fn' = [fn EXCEPT
                        !.results = Append(@, RunRiskResult(outcomes, KeywordMatches)),
                        !.failed = Append(@, a.raised)]
    /\ UNCHANGED <<db, files, runs, started, faults, http, sel, agg>>

\* aggregated_risk = self._aggregate_risk_results(risk_results), after the
\* last iteration
MergeAggregate ==
    /\ fn.kind = "merge"
    /\ fn.phase = "collect"
    /\ Len(fn.results) = TotalIterations
    /\ fn' = [fn EXCEPT !.phase = "output",
                        !.out = Some(AnalysisPipeline_aggregate_risk_results(fn.results))]
    /\ UNCHANGED <<db, files, runs, started, faults, http, sel, agg>>

NextMerge ==
    \/ MergeRunRisk
    \/ MergeAggregate

SpecMerge == InitMerge /\ [][NextMerge]_vars

MergeDone == fn.kind = "merge" /\ fn.phase = "output"
MergeOut == Get(fn.out)
\* the reasons the runs gave in a section, in run order
RunReasons(field) ==
    [i \in 1..Len(fn.results) |->
        IF field = "social" THEN fn.results[i].social.reason
        ELSE fn.results[i].legal.reason]

\* C21: the social (legal) reason of the final aggregated risk result is the
\* most frequent reason string among the runs' social (legal) reasons, the
\* earliest run winning ties.
C21_ReasonIsMostFrequent ==
    MergeDone =>
        /\ MergeOut.social.reason = most_common(RunReasons("social"))
        /\ MergeOut.legal.reason = most_common(RunReasons("legal"))

\* the detail texts of a list of findings
Details(findings) == [k \in 1..Len(findings) |-> findings[k].detail]
\* the detail texts the runs reported in a section, in run order
RunDetails(field) ==
    Flatten([i \in 1..Len(fn.results) |->
                Details(findings_of(IF field = "social" THEN fn.results[i].social
                                    ELSE fn.results[i].legal))])

\* C22: social.findings and legal.findings of the aggregated risk result hold
\* every finding of every run once per distinct detail text, in order of
\* first occurrence across the runs.
C22_FindingsAreUnion ==
    MergeDone =>
        /\ Details(findings_of(MergeOut.social)) = KeyOrder(RunDetails("social"))
        /\ Details(findings_of(MergeOut.legal)) = KeyOrder(RunDetails("legal"))

\* C27: when at least one risk iteration succeeded, the social and legal
\* sections of the final aggregated risk result are those of a successful
\* iteration, not of the failure placeholder.
C27_SectionsFromSuccessfulIteration ==
    (MergeDone /\ \E i \in 1..Len(fn.failed) : ~fn.failed[i]) =>
        \E i \in 1..Len(fn.results) :
            /\ ~fn.failed[i]
            /\ MergeOut.social = fn.results[i].social
            /\ MergeOut.legal = fn.results[i].legal

\* ======================================= RiskAssessor._aggregate_risk_results
\* The tags of the passes and of the screener, drawn from a small set.
MaxPerRun == 2

PassTagChoices ==
    { FullTag("X", "B", "ra", "", "", <<>>),
      FullTag("X", "D", "rb", "text1", "00:05", <<SubTag("S", "A", "sa", "", "")>>),
      FullTag("X", "A", "rb", "text2", "",
              <<SubTag("S", "C", "sb", "st", "00:09"), SubTag("", "E", "sx", "sy", "00:08")>>),
      FullTag("Y", "", "", "", "00:07", <<>>),
      FullTag("", "E", "rz", "zz", "00:01", <<>>) }
ScreenerTagChoices ==
    { FullTag("Y", "C", "rk", "kw", "", <<>>),
      FullTag("X", "E", "ra", "kx", "00:10", <<SubTag("S", "B", "sb", "ks", "")>>) }

TagLists(choices, n) == UNION {[1..k -> choices] : k \in 0..n}

InitTags ==
    /\ AtRest
    /\ sel = [kind |-> "none"]
    /\ agg = [kind |-> "none"]
    /\ \E tags1, tags2 \in TagLists(PassTagChoices, MaxPerRun) :
         \E keyword_matches \in TagLists(ScreenerTagChoices, 1) :
            fn = [ kind |-> "tags", phase |-> "input",
                   base_results |->
                       << Judgement(Section("A", "r"), Section(LEGAL_NONE, "r"),
                                    <<0, 0>>, tags1, NoneStr),
                          Judgement(Section("A", "r"), Section(LEGAL_NONE, "r"),
                                    <<0, 0>>, tags2, NoneStr) >>,
                   keyword_matches |-> keyword_matches,
                   out |-> None ]

ApplyAggregateRiskResults ==
    /\ fn.kind = "tags"
    /\ fn.phase = "input"
    /\ fn' = [fn EXCEPT
                !.phase = "output",
                !.out = Some(RiskAssessor_aggregate_risk_results(fn.base_results,
                                                                 fn.keyword_matches))]
    /\ UNCHANGED <<db, files, runs, started, faults, http, sel, agg>>

NextTags == ApplyAggregateRiskResults

SpecTags == InitTags /\ [][NextTags]_vars

TagsDone == fn.kind = "tags" /\ fn.phase = "output"
TagsOut == Get(fn.out).tags
\* every tag handed in, in the order run 1..N, then screener candidates
TagsSeen ==
    Flatten([i \in 1..Len(fn.base_results) |-> fn.base_results[i].tags])
        \o fn.keyword_matches
\* the entries of a list that carry the name n
Named(entries, n) == SelectSeq(entries, LAMBDA t : t.name = n)
\* the sub-tags listed under the entries of a list
SubsSeen(entries) == Flatten([i \in 1..Len(entries) |-> entries[i].related_sub_tags])
NamesIn(entries) == {entries[i].name : i \in 1..Len(entries)} \ {""}

\* v is the first non-empty value of the key among the payloads
IsFirstNonEmpty(v, payloads, key, default) ==
    IF \A i \in 1..Len(payloads) : payloads[i][key] = "" THEN v = default
    ELSE \E i \in 1..Len(payloads) :
            /\ payloads[i][key] = v
            /\ v # ""
            /\ \A j \in 1..(i - 1) : payloads[j][key] = ""
\* g is the highest of the grades A..E among the payloads
IsMaxGrade(g, payloads) ==
    LET seen == {payloads[i].grade : i \in 1..Len(payloads)} \cap SocialGrades
    IN seen # {} => /\ g \in seen
                    /\ \A h \in seen : Rank(SocialOrder, h) <= Rank(SocialOrder, g)
\* v is the reason most payloads give, the one given first among equals
IsMostFrequentReason(v, payloads) ==
    LET given == {i \in 1..Len(payloads) : payloads[i].reason # ""}
        times(x) == Cardinality({i \in given : payloads[i].reason = x})
        first(x) == CHOOSE i \in given :
                        payloads[i].reason = x /\ \A j \in given : j < i => payloads[j].reason # x
    IN IF given = {} THEN v = ""
       ELSE /\ \E i \in given : payloads[i].reason = v
            /\ \A i \in given :
                  \/ times(payloads[i].reason) < times(v)
                  \/ times(payloads[i].reason) = times(v) /\ first(v) <= i
\* the entry e is the merge of the payloads of its name
MergesPayloads(e, payloads) ==
    /\ IsMaxGrade(e.grade, payloads)
    /\ IsMostFrequentReason(e.reason, payloads)
    /\ IsFirstNonEmpty(e.detected_text, payloads, "detected_text", "")
    /\ IsFirstNonEmpty(e.detected_timecode, payloads, "detected_timecode", NoneStr)
\* the entries name each name of `seen` once
OnePerName(entries, seen) ==
    /\ NamesIn(entries) = NamesIn(seen)
    /\ Len(entries) = Cardinality(NamesIn(seen))

\* C23: RiskAssessor._aggregate_risk_results outputs one tag per distinct tag
\* name of the runs' tags and the screener candidates and one sub-tag per
\* distinct (tag, sub-tag) name pair; each entry carries the maximum grade
\* seen for its name, the most frequent reason, and the first non-empty
\* detected text and timecode in the order run 1..N, then screener.
C23_OneMergedEntryPerName ==
    TagsDone =>
        /\ OnePerName(TagsOut, TagsSeen)
        /\ \A k \in 1..Len(TagsOut) :
              LET payloads == Named(TagsSeen, TagsOut[k].name)
                  subs == TagsOut[k].related_sub_tags
              IN /\ MergesPayloads(TagsOut[k], payloads)
                 /\ OnePerName(subs, SubsSeen(payloads))
                 /\ \A j \in 1..Len(subs) :
                       MergesPayloads(subs[j], Named(SubsSeen(payloads), subs[j].name))

\* C23 witness: a name listed by both runs and by the screener, whose merged
\* entry takes its detected text from a later payload than its first, with
\* a sub-tag merged from two payloads
C23_Witness ==
    /\ TagsDone
    /\ \E k \in 1..Len(TagsOut) :
          LET payloads == Named(TagsSeen, TagsOut[k].name)
          IN /\ Len(payloads) >= 3
             /\ Named(fn.keyword_matches, TagsOut[k].name) # <<>>
             /\ payloads[1].detected_text = ""
             /\ TagsOut[k].detected_text # ""
             /\ payloads[1].grade # TagsOut[k].grade
             /\ \E j \in 1..Len(TagsOut[k].related_sub_tags) :
                   Len(Named(SubsSeen(payloads), TagsOut[k].related_sub_tags[j].name)) >= 2

\* the fields of a project that mark_pipeline_failed is said to leave alone
KeptOnFailure(project) ==
    [ media_type |-> project.media_type,
      payloads |-> project.payloads,
      step_status |-> project.step_status,
      analysis_progress |-> project.analysis_progress,
      current_iteration |-> project.current_iteration,
      total_iterations |-> project.total_iterations,
      final_report |-> project.final_report,
      analysis_started |-> project.analysis_started,
      analysis_started_at |-> project.analysis_started_at ]

\* C24: mark_pipeline_failed sets the status to failed, appends the failure
\* reason to the log and sets the completion time and duration; payloads,
\* step_status, analysis_progress, the iteration counters and final_report are
\* as they were before the failure, and the reason is readable from the log
\* the status data carries.
C24_FailureKeepsResults ==
    [][ \A r \in DOMAIN runs :
           (runs[r].pc = "except" /\ runs'[r].pc = "raised") =>
               LET p == runs[r].project_id
               IN /\ db'[p].status = "failed"
                  /\ db'[p].logs = Append(db[p].logs, LogEntry("pipeline failed", runs[r].exc))
                  /\ runs[r].exc # NoneStr
                  /\ db'[p].analysis_completed_at # NoneStr
                  /\ KeptOnFailure(db'[p]) = KeptOnFailure(db[p])
      ]_vars

\* C24 witness: a run has failed after a step of it completed, and the
\* project still shows that step's payload and progress
C24_Witness ==
    \E r \in DOMAIN runs :
        /\ runs[r].pc = "raised"
        /\ db[runs[r].project_id].status = "failed"
        /\ db[runs[r].project_id].analysis_progress > 0
        /\ \E s \in StepSet : db[runs[r].project_id].step_status[s] = "completed"
        /\ db[runs[r].project_id].payloads # EmptyDict

\* ------------------------------------------------ two projects side by side
\* Two projects in one store, each analysed once: a task for each accepted
\* start_analysis request; the tasks interleave at every await.
PairIds == {"p1", "p2"}

InitPair ==
    /\ db = [p \in PairIds |-> NewProject(IF p = "p1" THEN "video" ELSE "image")]
    /\ files = [p \in PairIds |-> EmptyDict]
    /\ runs = [r \in 1..Cardinality(PairIds) |-> IdleRun]
    /\ started = 0
    /\ faults = MaxFaults - 1
    /\ http = [project_id |-> "", status |-> 0]
    /\ sel = [kind |-> "none"]
    /\ agg = [kind |-> "none"]
    /\ fn = [kind |-> "none"]

NextPair ==
    \/ \E p \in PairIds :
          /\ \A r \in DOMAIN runs : runs[r].project_id # p
          /\ StartAnalysis(p)
    \/ \E r \in DOMAIN runs :
         \/ RunStep(r)
         \/ RunRisk(r)
         \/ Finalize(r)

SpecPair == InitPair /\ [][NextPair]_vars

\* C25: with the pipelines of two projects running concurrently, a step that
\* changes the stored state or the files of a project is a step of that
\* project's own task (or the request that starts it) and of no other task:
\* whatever happens for P, failure included, the state of Q stays as it was.
C25_OtherProjectsUntouched ==
    [][ \A q \in PairIds :
           (db'[q] # db[q] \/ files'[q] # files[q]) =>
               \E r \in DOMAIN runs :
                   /\ runs'[r] # runs[r]
                   /\ runs'[r].project_id = q
                   /\ \A r2 \in DOMAIN runs \ {r} : runs'[r2] = runs[r2]
                   /\ \A q2 \in PairIds \ {q} : db'[q2] = db[q2] /\ files'[q2] = files[q2]
      ]_vars

\* C25 witness: the run of one project failed while the run of the other
\* was under way, and the other run then completed
C25_Witness ==
    \E r1, r2 \in DOMAIN runs :
        /\ runs[r1].pc = "raised"
        /\ runs[r2].pc = "done"
        /\ runs[r1].project_id # runs[r2].project_id
        /\ db[runs[r1].project_id].status = "failed"
        /\ db[runs[r1].project_id].payloads # EmptyDict
        /\ db[runs[r2].project_id].status = "completed"
        /\ IsSome(db[runs[r2].project_id].final_report)

\* ---------------------------------------- the sub-tag blocks of the tag sheet
\* Sheets of up to MaxBlockRows rows over two tag names, the header label,
\* blank rows and marker rows.
MaxBlockRows == 4

BlockRows == [tag : {NaN, "タグ1", "T1", "T2"}, definition : {"定義", "d"}, risk : {NoNumber}]

InitBlock ==
    /\ AtRest
    /\ sel = [kind |-> "none"]
    /\ agg = [kind |-> "none"]
    /\ \E n \in 0..MaxBlockRows :
         \E rows \in [1..n -> BlockRows] :
            fn = [kind |-> "load", phase |-> "input", rows |-> rows, out |-> None]

SpecBlock == InitBlock /\ [][NextLoad]_vars

\* the rows of the sheet by kind
BlankRow(k) == fn.rows[k].tag = NaN
HeaderRow(k) == ~BlankRow(k) /\ StripCell(fn.rows[k].tag) = HeaderLabel
MarkerRow(k) ==
    /\ ~BlankRow(k)
    /\ ~HeaderRow(k)
    /\ fn.rows[k].definition # NaN
    /\ StripCell(fn.rows[k].definition) = DefinitionMarker
PlainRow(k) == ~BlankRow(k) /\ ~HeaderRow(k) /\ ~MarkerRow(k)
NameAt(k) == StripCell(fn.rows[k].tag)
\* the marker rows before row k with no blank row up to k
Openers(k) == {i \in 1..(k - 1) : MarkerRow(i) /\ \A j \in i..k : ~BlankRow(j)}
InBlock(k) == Openers(k) # {}
Opener(k) == CHOOSE i \in Openers(k) : \A j \in Openers(k) : j <= i
\* the tag rows seen before row i
SeenBefore(i) == {j \in 1..(i - 1) : ~BlankRow(j) /\ ~HeaderRow(j)}
PreviousRow(i) == CHOOSE j \in SeenBefore(i) : \A h \in SeenBefore(i) : h <= j
\* the returned top-level tag of the name n lists a sub-tag of the name m
ListsSubTag(n, m) ==
    \E e \in 1..Len(LoadOut) :
        /\ LoadOut[e].name = n
        /\ \E u \in 1..Len(LoadOut[e].sub_tags) : LoadOut[e].sub_tags[u].name = m
\* the rows that make a top-level tag: the plain rows outside a block and
\* the marker rows naming a tag no earlier top-level row names
TopLevelRows ==
    {k \in 1..Len(fn.rows) :
        \/ PlainRow(k) /\ ~InBlock(k)
        \/ /\ MarkerRow(k)
           /\ \A j \in 1..(k - 1) :
                 ((PlainRow(j) /\ ~InBlock(j)) \/ MarkerRow(j)) => NameAt(j) # NameAt(k)}
SubTagRows == {k \in 1..Len(fn.rows) : PlainRow(k) /\ InBlock(k)}
SubTagCount == SeqSum([e \in 1..Len(LoadOut) |-> Len(LoadOut[e].sub_tags)])

\* C26 as stated: a marker row opens a sub-tag block for the tag of the
\* previously seen non-blank row; every following row up to the next blank
\* row is a sub-tag of that tag.
C26_BlockBelongsToPreviousRow ==
    LoadDone =>
        \A k \in 1..Len(fn.rows) :
            (PlainRow(k) /\ InBlock(k) /\ SeenBefore(Opener(k)) # {}) =>
                ListsSubTag(NameAt(PreviousRow(Opener(k))), NameAt(k))

\* C26 amended: a marker row opens a sub-tag block for the top-level tag
\* named by the marker row's own tag cell (added as a top-level tag when no
\* tag has the name); every following row up to the next blank row, header
\* and marker rows apart, is a sub-tag of that tag and not a top-level tag,
\* and the rows after the blank row are top-level tags again.
C26_BlockBelongsToNamedTag ==
    LoadDone =>
        /\ \A k \in 1..Len(fn.rows) :
              /\ (PlainRow(k) /\ InBlock(k)) => ListsSubTag(NameAt(Opener(k)), NameAt(k))
              /\ k \in TopLevelRows => \E e \in 1..Len(LoadOut) : LoadOut[e].name = NameAt(k)
        /\ Len(LoadOut) = Cardinality(TopLevelRows)
        /\ SubTagCount = Cardinality(SubTagRows)

\* C26 witness: a marker row naming another tag than the row before it, a
\* sub-tag row under it, a blank row and a top-level row after the blank
C26_Witness ==
    /\ LoadDone
    /\ Len(fn.rows) = 4
    /\ PlainRow(1) /\ MarkerRow(2) /\ PlainRow(3) /\ BlankRow(4)
    /\ NameAt(1) # NameAt(2)
    /\ Len(LoadOut) = 2
    /\ LoadOut[2].name = NameAt(2)
    /\ LoadOut[1].sub_tags = <<>>
    /\ Len(LoadOut[2].sub_tags) = 1

\* C28: after a successful run, the files the final report names for the
\* transcription, the OCR and the visual analysis hold the extraction result
\* the selector selected for the step.
C28_FilesHoldSelectedResults ==
    \A r \in DOMAIN runs :
        runs[r].pc = "done" =>
            LET p == runs[r].project_id
                report == Get(db[p].final_report)
                transcript == Get(runs[r].transcript)
                ocr == Get(runs[r].ocr)
                video == Get(runs[r].video)
            IN /\ files[p][report.files.ocr] = ocr.text
               /\ files[p][report.files.video_analysis] = video.result
               /\ (transcript.source # "skipped" /\ Truthy(transcript.text)) =>
                      files[p][report.files.transcription] = transcript.text

\* C29: analysis_progress is 1.0 only when the status is completed; while
\* the status is analyzing it is below 1.0.
C29_FullProgressOnlyWhenCompleted ==
    \A p \in DOMAIN db :
        /\ db[p].analysis_progress = Len(PROJECT_STEPS) => db[p].status = "completed"
        /\ db[p].status = "analyzing" => db[p].analysis_progress < Len(PROJECT_STEPS)

\* C30: after mark_pipeline_started succeeds, whatever the status before
\* (created, completed or failed), every step is pending, analysis_progress
\* is 0 and there is no final_report.
C30_StartResetsProject ==
    [][ \A p \in DOMAIN db :
           (db[p].status # "analyzing" /\ db'[p].status = "analyzing") =>
               /\ \A s \in StepSet : db'[p].step_status[s] = "pending"
               /\ db'[p].analysis_progress = 0
               /\ db'[p].final_report = None
      ]_vars
====
